---- MODULE Spec2Model ----
(***************************************************************************)
(* A model of the Zig documentation converter (converter/                  *)
(* zig_docs_converter.py): the table-of-contents parser, the section       *)
(* extractor working on the mutable document tree, the orchestrator        *)
(* convert_html_to_markdown, and the text functions slugify,               *)
(* clean_markdown, fix_internal_links and convert_pre, each also called on *)
(* its own; and of ZigVersionDetector.detect (zig-programming/scripts/     *)
(* detect_version.py).                                                     *)
(*                                                                         *)
(* Text (ids, hrefs, titles, file names, markdown) is a sequence of        *)
(* one-character strings, so that prefixes, concatenation, slugs and       *)
(* pattern matches are computed.  Tag names and program positions are      *)
(* plain TLA+ strings.                                                     *)
(***************************************************************************)
EXTENDS Integers, Sequences, FiniteSets, TLC

\* ------------------------------------------------------------------ bounds

\* number of nodes of a document tree
MaxNodes == 3

\* number of list items of a table of contents (SpecToc)
MaxItems == 2

\* number of list items of the table of contents of a converted document (Spec)
MaxEntries == 2

\* ------------------------------------------------------------------ text

SetMin(S) == CHOOSE x \in S : \A y \in S : x <= y

Range(s) == {s[k] : k \in 1..Len(s)}

\* str.startswith
StartsWith(s, p) == Len(p) <= Len(s) /\ SubSeq(s, 1, Len(p)) = p

TocPrefix == <<"t", "o", "c", "-">>

Hash == <<"#">>

\* anchor ids the inputs are drawn from
AnchorA == <<"A">>

AnchorB == <<"B">>

UpperCase == <<"A", "B", "C", "D", "E", "F", "G", "H", "I", "J", "K", "L", "M",
               "N", "O", "P", "Q", "R", "S", "T", "U", "V", "W", "X", "Y", "Z">>

LowerCase == <<"a", "b", "c", "d", "e", "f", "g", "h", "i", "j", "k", "l", "m",
               "n", "o", "p", "q", "r", "s", "t", "u", "v", "w", "x", "y", "z">>

DigitChars == <<"0", "1", "2", "3", "4", "5", "6", "7", "8", "9">>

\* str.lower, one character
LowerChar(c) ==
    IF c \in Range(UpperCase)
    THEN LowerCase[CHOOSE k \in 1..Len(UpperCase) : UpperCase[k] = c]
    ELSE c

\* the regular expression classes \w and \s, on the characters of the model
IsWordChar(c) == c \in Range(UpperCase) \cup Range(LowerCase) \cup Range(DigitChars) \cup {"_"}

IsSpaceChar(c) == c \in {" ", "\t", "\n"}

\* str.strip(): whitespace off both ends
RECURSIVE LStrip(_)
LStrip(s) == IF s # <<>> /\ IsSpaceChar(Head(s)) THEN LStrip(Tail(s)) ELSE s

RECURSIVE RStrip(_)
RStrip(s) ==
    IF s # <<>> /\ IsSpaceChar(s[Len(s)]) THEN RStrip(SubSeq(s, 1, Len(s) - 1)) ELSE s

Strip(s) == RStrip(LStrip(s))

\* str.strip('-')
RECURSIVE StripHyphens(_)
StripHyphens(s) ==
    IF s # <<>> /\ Head(s) = "-" THEN StripHyphens(Tail(s))
    ELSE IF s # <<>> /\ s[Len(s)] = "-" THEN StripHyphens(SubSeq(s, 1, Len(s) - 1))
    ELSE s

\* re.sub(r'[^\w\s-]', '', text.lower())
RECURSIVE LowerAndDropSpecial(_)
LowerAndDropSpecial(s) ==
    IF s = <<>> THEN <<>>
    ELSE LET c == LowerChar(Head(s))
         IN (IF IsWordChar(c) \/ IsSpaceChar(c) \/ c = "-" THEN <<c>> ELSE <<>>)
            \o LowerAndDropSpecial(Tail(s))

\* re.sub(r'[-\s]+', '-', slug): every maximal run of hyphens and whitespace
\* becomes one hyphen
RECURSIVE CollapseSeparators(_)
CollapseSeparators(s) ==
    IF s = <<>> THEN <<>>
    ELSE IF Head(s) = "-" \/ IsSpaceChar(Head(s))
         THEN IF Len(s) >= 2 /\ (s[2] = "-" \/ IsSpaceChar(s[2]))
              THEN CollapseSeparators(Tail(s))
              ELSE <<"-">> \o CollapseSeparators(Tail(s))
         ELSE <<Head(s)>> \o CollapseSeparators(Tail(s))

SlugifyStripFirst(text) == CollapseSeparators(StripHyphens(LowerAndDropSpecial(text)))

\* slugify(text)
Slugify(text) == StripHyphens(CollapseSeparators(LowerAndDropSpecial(text)))

\* str(n) for n >= 0
RECURSIVE Decimal(_)
Decimal(n) ==
    IF n < 10 THEN <<DigitChars[n + 1]>> ELSE Decimal(n \div 10) \o <<DigitChars[(n % 10) + 1]>>

\* f"{n:02d}": padded with zeros to a width of at least two
Format02d(n) == IF n < 10 THEN <<"0">> \o Decimal(n) ELSE Decimal(n)

\* ------------------------------------------------------------------ document tree

\* A node of the parsed document: a Tag (h1, h2, p, div) or a NavigableString
\* ("#text").  id is the id attribute, href the href of the anchor inside a
\* heading (<<>> when there is none), parent the node it is a child of (0 is
\* the body).  Nodes are numbered in document order.
Node(tag, id, href, parent) == [tag |-> tag, id |-> id, href |-> href, parent |-> parent]

HeadingShapes ==
    {[tag |-> "h2", id |-> i, href |-> <<>>] : i \in {AnchorA, TocPrefix \o AnchorA, AnchorB, <<>>}}
    \cup {[tag |-> "h1", id |-> i, href |-> <<>>] : i \in {AnchorA, TocPrefix \o AnchorA, <<>>}}
    \cup {[tag |-> "h1", id |-> <<>>, href |-> h] : h \in {Hash \o AnchorA, Hash \o TocPrefix \o AnchorA}}

OtherShapes == {[tag |-> t, id |-> <<>>, href |-> <<>>] : t \in {"p", "div", "#text"}}

Parent(d, n) == d[n].parent

\* the trees of n nodes: a node is a child of the body, or of a div that is a
\* child of the body and whose children so far end just before it
RECURSIVE DocsOver(_, _)
DocsOver(shapes, n) ==
    IF n = 0 THEN {<<>>}
    ELSE UNION {
        {Append(d, Node(s.tag, s.id, s.href, 0)) : s \in shapes}
        \cup {Append(d, Node(s.tag, s.id, s.href, p)) :
                s \in shapes,
                p \in {m \in 1..Len(d) :
                        /\ d[m].tag = "div"
                        /\ d[m].parent = 0
                        /\ \A k \in (m + 1)..Len(d) : d[k].parent = m}}
        : d \in DocsOver(shapes, n - 1)}

VARIABLES
    doc,        \* the parsed document: a sequence of nodes in document order
    detached,   \* the nodes extract() has removed from their parent
    claimed,    \* per node: in how many calls' result container it was placed
    last,       \* the most recent extract_section_content call and its result
    navs,       \* the document's four table-of-contents containers, by priority
    pc,         \* where convert_html_to_markdown stands
    toc,        \* toc_sections
    section_map, \* anchor id -> file name, as the list of the dict's items
    idx,        \* the loop's position in toc_sections, from 1
    md,         \* markdown_content of the entry in progress
    status,     \* per entry processed so far: how it ended and the nodes it took
    writes,     \* the section files written, in order
    dir_created, \* the output directory has been created
    readme,     \* the README.md contents written, in order
    summary,    \* the file counts the final log line has reported
    exit_code,  \* the code of sys.exit, -1 while none was called
    call,       \* the function a single call is made of, "none" outside such a call
    args,       \* the arguments of that call
    result,     \* what the call returned, <<>> before it returns
    versions_file \* the skill's versions.json: the list it holds, or no file

\* n is still part of the soup: neither it nor an ancestor has been extracted
RECURSIVE InSoup(_, _, _)
InSoup(d, det, n) ==
    /\ n \notin det
    /\ (Parent(d, n) = 0 \/ InSoup(d, det, Parent(d, n)))

\* m hangs below n: a chain of parents, none of them extracted, leads from m to n
RECURSIVE IsBelow(_, _, _, _)
IsBelow(d, det, m, n) ==
    /\ m \notin det
    /\ Parent(d, m) # 0
    /\ (Parent(d, m) = n \/ IsBelow(d, det, Parent(d, m), n))

\* n and everything that hangs below it
Subtree(d, det, n) == {n} \cup {m \in 1..Len(d) : IsBelow(d, det, m, n)}

\* soup.find(name, id=idv): the first tag in document order, at any depth
SoupFind(d, det, name, idv) ==
    LET S == {n \in 1..Len(d) : InSoup(d, det, n) /\ d[n].tag = name /\ d[n].id = idv}
    IN IF S = {} THEN 0 ELSE SetMin(S)

\* the loop over soup.find_all('h1'): the first h1 holding a link to #id or #toc-id
FindH1ByLink(d, det, sid) ==
    LET S == {n \in 1..Len(d) :
                /\ InSoup(d, det, n)
                /\ d[n].tag = "h1"
                /\ (d[n].href = Hash \o sid \/ d[n].href = Hash \o TocPrefix \o sid)}
    IN IF S = {} THEN 0 ELSE SetMin(S)

\* the lookup without its last resort, the h1 holding a link
FindSectionHeaderNoLink(d, det, sid) ==
    IF SoupFind(d, det, "h2", sid) # 0 THEN SoupFind(d, det, "h2", sid)
    ELSE IF SoupFind(d, det, "h2", TocPrefix \o sid) # 0 THEN SoupFind(d, det, "h2", TocPrefix \o sid)
    ELSE IF SoupFind(d, det, "h1", sid) # 0 THEN SoupFind(d, det, "h1", sid)
    ELSE SoupFind(d, det, "h1", TocPrefix \o sid)

\* the lookup trying the direct ids, of h2 and of h1, before the prefixed ones
FindSectionHeaderDirectFirst(d, det, sid) ==
    IF SoupFind(d, det, "h2", sid) # 0 THEN SoupFind(d, det, "h2", sid)
    ELSE IF SoupFind(d, det, "h1", sid) # 0 THEN SoupFind(d, det, "h1", sid)
    ELSE IF SoupFind(d, det, "h2", TocPrefix \o sid) # 0 THEN SoupFind(d, det, "h2", TocPrefix \o sid)
    ELSE IF SoupFind(d, det, "h1", TocPrefix \o sid) # 0 THEN SoupFind(d, det, "h1", TocPrefix \o sid)
    ELSE FindH1ByLink(d, det, sid)

\* the heading lookup of extract_section_content; 0 when nothing matches
FindSectionHeader(d, det, sid) ==
    IF SoupFind(d, det, "h2", sid) # 0 THEN SoupFind(d, det, "h2", sid)
    ELSE IF SoupFind(d, det, "h2", TocPrefix \o sid) # 0 THEN SoupFind(d, det, "h2", TocPrefix \o sid)
    ELSE IF SoupFind(d, det, "h1", sid) # 0 THEN SoupFind(d, det, "h1", sid)
    ELSE IF SoupFind(d, det, "h1", TocPrefix \o sid) # 0 THEN SoupFind(d, det, "h1", TocPrefix \o sid)
    ELSE FindH1ByLink(d, det, sid)

\* element.find_next_sibling(): the next sibling that is a Tag; text nodes
\* (NavigableString) are passed over.  0 when there is none.  An extracted
\* element has no parent and therefore no siblings.
FindNextSibling(d, det, n) ==
    LET S == {m \in (n + 1)..Len(d) :
                /\ Parent(d, m) = Parent(d, n)
                /\ m \notin det
                /\ d[m].tag # "#text"}
    IN IF n \in det \/ S = {} THEN 0 ELSE SetMin(S)

\* the while loop over the siblings, stopping at the next section header
RECURSIVE WalkSiblings(_, _, _, _, _)
WalkSiblings(d, det, sibling, stop_tag, acc) ==
    IF sibling = 0 THEN acc
    ELSE IF d[sibling].tag = stop_tag THEN acc
    ELSE IF d[sibling].tag = "h1" THEN acc
    ELSE WalkSiblings(d, det, FindNextSibling(d, det, sibling), stop_tag, Append(acc, sibling))

\* extracting each element as soon as it is reached: the header, once out of
\* the tree, has no next sibling
ElementsToExtractLazy(d, det, header) ==
    WalkSiblings(d, det \cup {header}, FindNextSibling(d, det \cup {header}, header),
                 d[header].tag, <<header>>)

\* elements_to_extract: the header and its siblings, gathered before any
\* element is extracted
ElementsToExtract(d, det, header) ==
    WalkSiblings(d, det, FindNextSibling(d, det, header), d[header].tag, <<header>>)

\* appending the elements to the container without extracting them
DetachNone(det, elements) == det

\* extracting the siblings and leaving the header where it is
DetachSiblingsOnly(det, elements) == det \cup Range(Tail(elements))

\* the for loop appending element.extract() to the container: what is out of
\* the tree afterwards
DetachAll(det, elements) == det \cup Range(elements)

\* extract_section_content(soup, section_id): the result (found = FALSE is
\* None) and the tree afterwards
ExtractSectionContent(d, det, sid) ==
    LET header == FindSectionHeader(d, det, sid)
    IN IF header = 0
       THEN [found |-> FALSE, header |-> 0, nodes |-> <<>>, det |-> det]
       ELSE LET elements == ElementsToExtract(d, det, header)
            IN [found |-> TRUE, header |-> header, nodes |-> elements,
                det |-> DetachAll(det, elements)]

\* every node that sits in a result container, the descendants included
Contained(d, det, nodes) == UNION {Subtree(d, det, n) : n \in Range(nodes)}

Claim(d, det, cl, nodes) ==
    [n \in 1..Len(d) |-> IF n \in Contained(d, det, nodes) THEN cl[n] + 1 ELSE cl[n]]

NoCall == [called |-> FALSE, sid |-> <<>>, found |-> FALSE, header |-> 0,
           nodes |-> <<>>, before |-> {}]

\* ------------------------------------------------------------------ parse_toc

\* A table-of-contents container (nav[aria-labelledby], div#toc, div#index,
\* div#nav): whether the document has it, whether a ul is found in it, and
\* the ul's direct li children.  An li is described by the first a below it:
\* link says there is one, href and text are its target and text.
Container(present, has_list, items) ==
    [present |-> present, has_list |-> has_list, items |-> items]

Item(link, href, text) == [link |-> link, href |-> href, text |-> text]

\* the container the chain of soup.find calls settles on; 0 when none exists
FindTocNav(nv) ==
    LET S == {k \in 1..4 : nv[k].present}
    IN IF S = {} THEN 0 ELSE SetMin(S)

\* an entry whose file name is the slug alone
TocEntrySlugOnly(section_num, li) ==
    [number |-> section_num,
     id |-> SubSeq(li.href, 2, Len(li.href)),
     title |-> Strip(li.text),
     filename |-> Slugify(Strip(li.text)) \o <<".", "m", "d">>]

TocEntry(section_num, li) ==
    [number |-> section_num,
     id |-> SubSeq(li.href, 2, Len(li.href)),
     title |-> Strip(li.text),
     filename |-> Format02d(section_num) \o <<"-">> \o Slugify(Strip(li.text))
                    \o <<".", "m", "d">>]

\* the loop with a counter that also advances on the items it skips
RECURSIVE TocLoopCountingItems(_, _, _)
TocLoopCountingItems(items, section_num, acc) ==
    IF items = <<>> THEN acc
    ELSE IF ~Head(items).link THEN TocLoopCountingItems(Tail(items), section_num + 1, acc)
    ELSE IF ~StartsWith(Head(items).href, Hash)
         THEN TocLoopCountingItems(Tail(items), section_num + 1, acc)
    ELSE TocLoopCountingItems(Tail(items), section_num + 1,
                              Append(acc, TocEntry(section_num, Head(items))))

\* the loop over the top-level list items
RECURSIVE TocLoop(_, _, _)
TocLoop(items, section_num, acc) ==
    IF items = <<>> THEN acc
    ELSE IF ~Head(items).link THEN TocLoop(Tail(items), section_num, acc)
    ELSE IF ~StartsWith(Head(items).href, Hash) THEN TocLoop(Tail(items), section_num, acc)
    ELSE TocLoop(Tail(items), section_num + 1, Append(acc, TocEntry(section_num, Head(items))))

\* parse_toc(soup)
ParseToc(nv) ==
    LET toc_nav == FindTocNav(nv)
    IN IF toc_nav = 0 THEN <<>>
       ELSE IF ~nv[toc_nav].has_list THEN <<>>
       ELSE TocLoop(nv[toc_nav].items, 1, <<>>)

\* build_section_map: a dict keeps the place of a key's first insertion and
\* the value of its last
RECURSIVE BuildSectionMap(_, _)
BuildSectionMap(sections, map) ==
    IF sections = <<>> THEN map
    ELSE LET e == Head(sections)
             at == {k \in 1..Len(map) : map[k].id = e.id}
         IN BuildSectionMap(
                Tail(sections),
                IF at = {} THEN Append(map, [id |-> e.id, filename |-> e.filename])
                ELSE [map EXCEPT ![SetMin(at)].filename = e.filename])

\* ------------------------------------------------------------------ fix_internal_links

\* the first position from i on where s holds c, 0 when there is none
RECURSIVE IndexFrom(_, _, _)
IndexFrom(s, c, i) ==
    IF i > Len(s) THEN 0
    ELSE IF s[i] = c THEN i
    ELSE IndexFrom(s, c, i + 1)

\* The pattern \[(.*?)\]\((#[^\)]+)\) with its link text ending just before
\* position j: "](#" stands at j, the text from i + 1 to j - 1 holds no newline
\* (the dot does not match one), and the anchor runs over at least one
\* character other than ")" up to the first ")".
LinkEndsAt(s, i, j) ==
    /\ j + 3 <= Len(s)
    /\ s[j] = "]"
    /\ s[j + 1] = "("
    /\ s[j + 2] = "#"
    /\ s[j + 3] # ")"
    /\ IndexFrom(s, ")", j + 3) # 0
    /\ \A k \in (i + 1)..(j - 1) : s[k] # "\n"

\* the match of the pattern that starts at position i: the lazy link text
\* takes the first end that lets the rest match
LinkMatchAt(s, i) ==
    LET ends == {j \in (i + 1)..Len(s) : LinkEndsAt(s, i, j)}
    IN IF i > Len(s) \/ s[i] # "[" \/ ends = {}
       THEN [ok |-> FALSE]
       ELSE LET j == SetMin(ends)
                e == IndexFrom(s, ")", j + 3)
            IN [ok |-> TRUE,
                link_text |-> SubSeq(s, i + 1, j - 1),
                anchor |-> SubSeq(s, j + 2, e - 1),
                whole |-> SubSeq(s, i, e),
                end |-> e]

\* section_id with a leading "toc-" removed
NormalizeAnchorKeepPrefix(section_id) == section_id

NormalizeAnchor(section_id) ==
    IF StartsWith(section_id, TocPrefix)
    THEN SubSeq(section_id, Len(TocPrefix) + 1, Len(section_id))
    ELSE section_id

\* The loop over section_map.items(): the file of the first key, in the
\* dictionary's order, that equals section_id or that section_id starts with;
\* <<>> is None.
LookupTargetOrFirstFile(map, section_id) ==
    LET hits == {k \in 1..Len(map) :
                    map[k].id = section_id \/ StartsWith(section_id, map[k].id)}
    IN IF hits # {} THEN map[SetMin(hits)].filename
       ELSE IF map # <<>> THEN map[1].filename
       ELSE <<>>

LookupTarget(map, section_id) ==
    LET hits == {k \in 1..Len(map) :
                    map[k].id = section_id \/ StartsWith(section_id, map[k].id)}
    IN IF hits = {} THEN <<>> ELSE map[SetMin(hits)].filename

LinkTo(link_text, target) == <<"[">> \o link_text \o <<"]", "(">> \o target \o <<")">>

\* the last "[" of the link text onwards
RECURSIVE AfterLastBracket(_)
AfterLastBracket(t) ==
    IF IndexFrom(t, "[", 1) = 0 THEN t
    ELSE AfterLastBracket(SubSeq(t, IndexFrom(t, "[", 1) + 1, Len(t)))

ReplaceLinkInnermostText(m, current_file, map) ==
    LET section_id == NormalizeAnchor(Tail(m.anchor))
        target_file == LookupTarget(map, section_id)
    IN IF target_file # <<>> /\ target_file # current_file
       THEN LinkTo(AfterLastBracket(m.link_text), target_file \o Hash \o section_id)
       ELSE LinkTo(AfterLastBracket(m.link_text), Hash \o section_id)

\* replace_link(match)
ReplaceLink(m, current_file, map) ==
    IF StartsWith(m.anchor, <<"h", "t", "t", "p">>) THEN m.whole
    ELSE IF StartsWith(m.anchor, Hash)
    THEN LET section_id == NormalizeAnchor(Tail(m.anchor))
             target_file == LookupTarget(map, section_id)
         IN IF target_file # <<>> /\ target_file # current_file
            THEN LinkTo(m.link_text, target_file \o Hash \o section_id)
            ELSE LinkTo(m.link_text, Hash \o section_id)
    ELSE m.whole

\* re.sub(pattern, replace_link, content), scanning from position i: the
\* matches are the leftmost ones and do not overlap
RECURSIVE SubLinks(_, _, _, _)
SubLinks(s, i, current_file, map) ==
    IF i > Len(s) THEN <<>>
    ELSE LET m == LinkMatchAt(s, i)
         IN IF m.ok
            THEN ReplaceLink(m, current_file, map) \o SubLinks(s, m.end + 1, current_file, map)
            ELSE <<s[i]>> \o SubLinks(s, i + 1, current_file, map)

\* fix_internal_links(content, current_file, section_map)
FixInternalLinks(content, current_file, map) == SubLinks(content, 1, current_file, map)

\* ------------------------------------------------------------------ clean_markdown

\* s holds p from position i on
HasAt(s, i, p) == i >= 1 /\ i + Len(p) - 1 <= Len(s) /\ SubSeq(s, i, i + Len(p) - 1) = p

\* the first position from i on whose character is not in the set, Len(s) + 1
\* when there is none: the end of a greedy run
RECURSIVE RunEnd(_, _, _)
RunEnd(s, i, chars) ==
    IF i > Len(s) \/ s[i] \notin chars THEN i ELSE RunEnd(s, i + 1, chars)

WhiteSpace == {" ", "\t", "\n"}

NewlinesIn(s, i, j) == Cardinality({k \in i..(j - 1) : s[k] = "\n"})

\* the character ` goes by its name: a string of this language cannot hold it
Backtick == "backtick"

Fence == <<Backtick, Backtick, Backtick>>

\* the names html.unescape knows, of those the inputs can hold: with the
\* semicolon, and without it (the names HTML keeps for old documents)
Html5 ==
    {[name |-> <<"a", "m", "p">>, char |-> "&"],
     [name |-> <<"l", "t">>, char |-> "<"],
     [name |-> <<"g", "t">>, char |-> ">"]}

IsEntity(n) == \E e \in Html5 : n = e.name \/ n = e.name \o <<";">>

EntityChar(n) == (CHOOSE e \in Html5 : n = e.name \/ n = e.name \o <<";">>).char

\* replace_charref of html.unescape for the reference "&" \o ref: the whole
\* name if it is known, else its longest known prefix of two characters or
\* more, else the text as it stands
ReplaceCharref(ref) ==
    IF IsEntity(ref) THEN <<EntityChar(ref)>>
    ELSE LET known == {x \in 2..(Len(ref) - 1) : IsEntity(SubSeq(ref, 1, x))}
         IN IF known = {} THEN <<"&">> \o ref
            ELSE LET x == CHOOSE y \in known : \A w \in known : w <= y
                 IN <<EntityChar(SubSeq(ref, 1, x))>> \o SubSeq(ref, x + 1, Len(ref))

\* html.unescape(content), from position i: a reference is "&", a run of
\* characters other than whitespace, "<", "&", "#", ";", and a ";" if one
\* follows.  The inputs hold no numeric reference.
RECURSIVE Unescape(_, _)
Unescape(s, i) ==
    IF i > Len(s) THEN <<>>
    ELSE LET r == RunEnd(s, i + 1, Range(s) \ {"\t", "\n", " ", "<", "&", "#", ";"})
             e == IF r <= Len(s) /\ s[r] = ";" THEN r + 1 ELSE r
         IN IF s[i] = "&" /\ r > i + 1
            THEN ReplaceCharref(SubSeq(s, i + 1, e - 1)) \o Unescape(s, e)
            ELSE <<s[i]>> \o Unescape(s, i + 1)

\* re.sub(r'\n{4,}', '\n\n\n', content)
RECURSIVE CollapseBlankLines(_, _)
CollapseBlankLines(s, i) ==
    IF i > Len(s) THEN <<>>
    ELSE LET r == RunEnd(s, i, {"\n"})
         IN IF r - i >= 4
            THEN <<"\n", "\n", "\n">> \o CollapseBlankLines(s, r)
            ELSE <<s[i]>> \o CollapseBlankLines(s, i + 1)

\* A fence at i, whitespace, `text`, whitespace, a fence: the match of
\* ```\s*`([^`]+)`\s*``` and, when both stretches of whitespace hold two line
\* breaks or more (blank), of ```\s*\n\s*\n\s*`([^`]+)`\s*\n\s*\n\s*```
WrappedCodeAt(s, i, blank) ==
    LET j == RunEnd(s, i + 3, WhiteSpace)
        e == IndexFrom(s, Backtick, j + 1)
        k == RunEnd(s, e + 1, WhiteSpace)
    IN IF /\ HasAt(s, i, Fence)
          /\ j <= Len(s) /\ s[j] = Backtick
          /\ e > j + 1
          /\ HasAt(s, k, Fence)
          /\ blank => (NewlinesIn(s, i + 3, j) >= 2 /\ NewlinesIn(s, e + 1, k) >= 2)
       THEN [ok |-> TRUE, code |-> SubSeq(s, j + 1, e - 1), end |-> k + 2]
       ELSE [ok |-> FALSE]

\* re.sub(r'```\s*\n\s*\n\s*`([^`]+)`\s*\n\s*\n\s*```', r'```\n\1\n```', content)
RECURSIVE UnwrapFencedBlock(_, _)
UnwrapFencedBlock(s, i) ==
    IF i > Len(s) THEN <<>>
    ELSE LET m == WrappedCodeAt(s, i, TRUE)
         IN IF m.ok
            THEN Fence \o <<"\n">> \o m.code \o <<"\n">> \o Fence \o UnwrapFencedBlock(s, m.end + 1)
            ELSE <<s[i]>> \o UnwrapFencedBlock(s, i + 1)

\* re.sub(r'```\s*`([^`]+)`\s*```', r'`\1`', content)
RECURSIVE UnwrapFencedInline(_, _)
UnwrapFencedInline(s, i) ==
    IF i > Len(s) THEN <<>>
    ELSE LET m == WrappedCodeAt(s, i, FALSE)
         IN IF m.ok
            THEN <<Backtick>> \o m.code \o <<Backtick>> \o UnwrapFencedInline(s, m.end + 1)
            ELSE <<s[i]>> \o UnwrapFencedInline(s, i + 1)

\* re.sub(r'([^\n])\n```', r'\1\n\n```', content)
RECURSIVE BlankLineBeforeFence(_, _)
BlankLineBeforeFence(s, i) ==
    IF i > Len(s) THEN <<>>
    ELSE IF s[i] # "\n" /\ HasAt(s, i + 1, <<"\n">> \o Fence)
         THEN <<s[i], "\n", "\n">> \o Fence \o BlankLineBeforeFence(s, i + 5)
         ELSE <<s[i]>> \o BlankLineBeforeFence(s, i + 1)

\* re.sub(r'```\n([^\n])', r'```\n\n\1', content)
RECURSIVE BlankLineAfterFence(_, _)
BlankLineAfterFence(s, i) ==
    IF i > Len(s) THEN <<>>
    ELSE IF HasAt(s, i, Fence \o <<"\n">>) /\ i + 4 <= Len(s) /\ s[i + 4] # "\n"
         THEN Fence \o <<"\n", "\n", s[i + 4]>> \o BlankLineAfterFence(s, i + 5)
         ELSE <<s[i]>> \o BlankLineAfterFence(s, i + 1)

\* the end of the list marker (\* |\- |\d+\. ) that starts at i, 0 when none does
ListMarkerEnd(s, i) ==
    LET d == RunEnd(s, i, Range(DigitChars))
    IN IF HasAt(s, i, <<"*", " ">>) \/ HasAt(s, i, <<"-", " ">>) THEN i + 1
       ELSE IF d > i /\ HasAt(s, d, <<".", " ">>) THEN d + 1
       ELSE 0

\* re.sub(r'\n{3,}(\* |\- |\d+\. )', r'\n\n\1', content)
RECURSIVE TightenListStart(_, _)
TightenListStart(s, i) ==
    IF i > Len(s) THEN <<>>
    ELSE LET r == RunEnd(s, i, {"\n"})
             e == ListMarkerEnd(s, r)
         IN IF r - i >= 3 /\ e # 0
            THEN <<"\n", "\n">> \o SubSeq(s, r, e) \o TightenListStart(s, e + 1)
            ELSE <<s[i]>> \o TightenListStart(s, i + 1)

TocTarget == <<"]", "(", "#", "t", "o", "c", "-">>

\* The pattern ^(#{1,6})\s*\[(.*?)\]\(#toc-.*?\) with its heading text ending
\* just before j: "](#toc-" stands at j and a ")" follows on the same line,
\* and the text from b + 1 to j - 1 holds no line break
HeadingLinkEndsAt(s, b, j) ==
    LET c == IndexFrom(s, ")", j + Len(TocTarget))
    IN /\ HasAt(s, j, TocTarget)
       /\ c # 0
       /\ \A k \in (b + 1)..(j - 1) : s[k] # "\n"
       /\ \A k \in (j + Len(TocTarget))..(c - 1) : s[k] # "\n"

\* its match at position i, the start of a line: one to six "#", whitespace,
\* and the link, whose lazy text takes the first end that lets the rest match
HeadingLinkAt(s, i) ==
    LET h == RunEnd(s, i, {"#"})
        b == RunEnd(s, h, WhiteSpace)
        ends == {j \in (b + 1)..Len(s) : HeadingLinkEndsAt(s, b, j)}
    IN IF /\ i = 1 \/ s[i - 1] = "\n"
          /\ h - i \in 1..6
          /\ b <= Len(s) /\ s[b] = "["
          /\ ends # {}
       THEN LET j == SetMin(ends)
            IN [ok |-> TRUE, hashes |-> SubSeq(s, i, h - 1), text |-> SubSeq(s, b + 1, j - 1),
                end |-> IndexFrom(s, ")", j + Len(TocTarget))]
       ELSE [ok |-> FALSE]

\* re.sub(r'^(#{1,6})\s*\[(.*?)\]\(#toc-.*?\)', r'\1 \2', content, flags=re.MULTILINE)
RECURSIVE UnlinkHeadings(_, _)
UnlinkHeadings(s, i) ==
    IF i > Len(s) THEN <<>>
    ELSE LET m == HeadingLinkAt(s, i)
         IN IF m.ok
            THEN m.hashes \o <<" ">> \o m.text \o UnlinkHeadings(s, m.end + 1)
            ELSE <<s[i]>> \o UnlinkHeadings(s, i + 1)

\* clean_markdown(content)
CleanMarkdown(content) ==
    LET unescaped == Unescape(content, 1)
        collapsed == CollapseBlankLines(unescaped, 1)
        block == UnwrapFencedBlock(collapsed, 1)
        inline == UnwrapFencedInline(block, 1)
        before == BlankLineBeforeFence(inline, 1)
        after == BlankLineAfterFence(before, 1)
        lists == TightenListStart(after, 1)
        headings == UnlinkHeadings(lists, 1)
    IN Strip(headings) \o <<"\n">>

\* ------------------------------------------------------------------ convert_pre

\* A <pre> element as convert_pre reads it: whether a <figure> is among its
\* ancestors, the tag of its parent, whether it holds a <code> element, that
\* element's text and classes, the element sibling before it (name "" when
\* there is none) and the markdown of its children.
PreElement(in_figure, parent, has_code, code_text, code_classes, prev, text) ==
    [in_figure |-> in_figure, parent |-> parent, has_code |-> has_code,
     code_text |-> code_text, code_classes |-> code_classes, prev |-> prev, text |-> text]

\* the languages looked for among the classes, in the order of the loop
Languages ==
    <<<<"z", "i", "g">>, <<"s", "h", "e", "l", "l">>, <<"c">>,
      <<"j", "a", "v", "a", "s", "c", "r", "i", "p", "t">>, <<"p", "e", "g">>>>

DetectLanguage(code_classes) ==
    LET found == {k \in 1..Len(Languages) : Languages[k] \in code_classes}
    IN IF found = {} THEN <<>> ELSE Languages[SetMin(found)]

FileClass == <<"f", "i", "l", "e">>

\* file_label: "**`filename`:**" and a blank line for a <p class="file"> before the element
FileLabel(prev) ==
    IF prev.name = "p" /\ FileClass \in prev.classes
    THEN <<"*", "*", Backtick>> \o Strip(prev.text) \o <<Backtick, ":", "*", "*", "\n", "\n">>
    ELSE <<>>

\* ' '.join(code_text.split())
RECURSIVE JoinWords(_)
JoinWords(s) ==
    LET t == LStrip(s)
        e == RunEnd(t, 1, Range(t) \ WhiteSpace)
        rest == LStrip(SubSeq(t, e, Len(t)))
    IN IF t = <<>> THEN <<>>
       ELSE SubSeq(t, 1, e - 1) \o (IF rest = <<>> THEN <<>> ELSE <<" ">> \o JoinWords(rest))

LooksWrappedNever(code_text) == FALSE

\* code_text.strip().startswith('`') and code_text.strip().endswith('`')
LooksWrapped(code_text) ==
    /\ Strip(code_text) # <<>>
    /\ Head(Strip(code_text)) = Backtick
    /\ Strip(code_text)[Len(Strip(code_text))] = Backtick

\* f'\n{file_label}```{language}\n{code_text}\n```\n'
FencedBlock(file_label, language, code_text) ==
    <<"\n">> \o file_label \o Fence \o language \o <<"\n">> \o code_text \o <<"\n">> \o Fence \o <<"\n">>

\* what convert_pre returns: a text of its own, or what convert_pre of the
\* base class MarkdownConverter makes of el and text
OwnText(t) == [super |-> FALSE, text |-> t]

SuperConvertPre(el) == [super |-> TRUE, text |-> el.text]

\* ZigMarkdownConverter.convert_pre(el, text)
ConvertPre(el) ==
    IF el.in_figure THEN SuperConvertPre(el)
    ELSE IF el.parent \in {"td", "th"} /\ el.has_code
    THEN OwnText(<<Backtick>> \o JoinWords(el.code_text) \o <<Backtick>>)
    ELSE IF el.has_code
    THEN IF LooksWrapped(el.code_text)
         THEN OwnText(FencedBlock(<<>>, <<>>,
                        SubSeq(Strip(el.code_text), 2, Len(Strip(el.code_text)) - 1)))
         ELSE OwnText(FencedBlock(FileLabel(el.prev), DetectLanguage(el.code_classes),
                                  el.code_text))
    ELSE OwnText(el.text)

\* what convert_p returns for a paragraph and the name of the element sibling
\* after it: nothing for a file label before a <pre>, else what convert_p of
\* the base class makes of it
ConvertP(p, next) ==
    IF FileClass \in p.classes /\ next = "pre"
    THEN OwnText(<<>>)
    ELSE [super |-> TRUE, text |-> p.text]

vars == <<doc, detached, claimed, last, navs, pc, toc, section_map, idx, md, status,
          writes, dir_created, readme, summary, exit_code, call, args, result,
          versions_file>>

single == <<call, args, result>>

files == <<versions_file>>

\* Path.exists() is false for versions.json
NoFile == [exists |-> FALSE, versions |-> <<>>]

tree == <<doc, detached, claimed, last>>

run == <<navs, pc, toc, section_map, idx, md, status, writes, dir_created, readme,
         summary, exit_code>>

NoContainer == Container(FALSE, FALSE, <<>>)

NoMarkdown == [src |-> <<>>, steps |-> <<>>]

\* the state of a conversion that has read its input and done nothing yet
ConversionAt(position) ==
    /\ pc = position
    /\ toc = <<>>
    /\ section_map = <<>>
    /\ idx = 1
    /\ md = NoMarkdown
    /\ status = <<>>
    /\ writes = <<>>
    /\ dir_created = FALSE
    /\ readme = <<>>
    /\ summary = <<>>
    /\ exit_code = -1
    /\ versions_file = NoFile

\* a conversion at that position, and no single function call
RunAt(position) ==
    /\ ConversionAt(position)
    /\ call = "none"
    /\ args = <<>>
    /\ result = <<>>

\* a single function is called, outside of any conversion
NoConversion ==
    /\ doc = <<>>
    /\ detached = {}
    /\ claimed = <<>>
    /\ last = NoCall
    /\ navs = [k \in 1..4 |-> NoContainer]
    /\ ConversionAt("idle")

\* the result of a call that has not returned, and of one that has
Pending == [returned |-> FALSE, value |-> <<>>]

Returned(value) == [returned |-> TRUE, value |-> value]

\* ------------------------------------------------------------------ SpecExtract:
\* any sequence of extract_section_content calls on one document tree

InitExtract ==
    /\ doc \in DocsOver(HeadingShapes \cup OtherShapes, MaxNodes)
    /\ detached = {}
    /\ claimed = [n \in 1..Len(doc) |-> 0]
    /\ last = NoCall
    /\ navs = [k \in 1..4 |-> NoContainer]
    /\ RunAt("idle")

ExtractCall(sid) ==
    LET r == ExtractSectionContent(doc, detached, sid)
    IN /\ detached' = r.det
       /\ claimed' = Claim(doc, detached, claimed, r.nodes)
       /\ last' = [called |-> TRUE, sid |-> sid, found |-> r.found, header |-> r.header,
                   nodes |-> r.nodes, before |-> detached]
       /\ UNCHANGED <<single, files, doc, run>>

NextExtract == \E sid \in {AnchorA, AnchorB} : ExtractCall(sid)

SpecExtract == InitExtract /\ [][NextExtract]_vars

\* ------------------------------------------------------------------ claims on SpecExtract

\* the members of a set of node numbers in document order
RECURSIVE InDocumentOrder(_)
InDocumentOrder(S) ==
    IF S = {} THEN <<>> ELSE <<SetMin(S)>> \o InDocumentOrder(S \ {SetMin(S)})

IsInjective(s) == \A a, b \in 1..Len(s) : s[a] = s[b] => a = b

\* the siblings after h that were in the tree when the last call started
LaterSiblings(h) ==
    {m \in (h + 1)..Len(doc) : Parent(doc, m) = Parent(doc, h) /\ m \notin last.before}

\* the first later sibling that is a heading of h's level or an h1
SectionEnd(h) ==
    SetMin({m \in LaterSiblings(h) : doc[m].tag \in {doc[h].tag, "h1"}} \cup {Len(doc) + 1})

\* a heading the lookup rules accept for the anchor id
MatchesAnchor(n, sid) ==
    \/ doc[n].tag \in {"h1", "h2"} /\ doc[n].id \in {sid, TocPrefix \o sid}
    \/ doc[n].tag = "h1" /\ doc[n].href \in {Hash \o sid, Hash \o TocPrefix \o sid}

\* C1: no node is placed in the result container of more than one call; a
\* node collected for a section is out of the document from then on.
C1_ClaimedByOneCall ==
    /\ \A n \in 1..Len(doc) :
        /\ claimed[n] <= 1
        /\ (claimed[n] = 1 => ~InSoup(doc, detached, n))
    /\ IsInjective(last.nodes)

\* a second successful call on a tree an earlier call has taken nodes from
C1_Witness == last.found /\ last.before # {} /\ Len(last.nodes) >= 2

C4_NoneIffNoHeading ==
    last.called =>
        /\ (~last.found) <=>
             ~(\E n \in 1..Len(doc) : InSoup(doc, last.before, n) /\ MatchesAnchor(n, last.sid))
        /\ (~last.found => detached = last.before /\ last.nodes = <<>>)

\* a call that finds nothing in a tree that still holds a heading
C4_Witness ==
    /\ last.called
    /\ ~last.found
    /\ \E n \in 1..Len(doc) : InSoup(doc, detached, n) /\ doc[n].tag \in {"h1", "h2"}

\* ------------------------------------------------------------------ SpecToc:
\* parse_toc on the table-of-contents containers a document may hold

Titles == {<<" ", "A", " ", "b">>, <<"a", "-", "b">>, <<"C", "_", "!">>}

TocItems ==
    {Item(FALSE, <<>>, <<>>)}
    \cup {Item(TRUE, h, t) : h \in {Hash \o AnchorA, Hash \o AnchorB, <<"x">>}, t \in Titles}

ListsOver(items, n) == UNION {[1..k -> items] : k \in 0..n}

\* the list of a container that is not the first to hold one
OtherList == <<Item(TRUE, <<"#", "Z">>, <<"Z">>)>>

\* four containers of the given kinds; the first that holds a list holds L
NavsWith(kind, L) ==
    [k \in 1..4 |->
        IF kind[k] = "absent" THEN NoContainer
        ELSE IF kind[k] = "nolist" THEN Container(TRUE, FALSE, <<>>)
        ELSE Container(TRUE, TRUE,
                       IF k = SetMin({j \in 1..4 : kind[j] = "list"}) THEN L ELSE OtherList)]

InitToc ==
    /\ doc = <<>>
    /\ detached = {}
    /\ claimed = <<>>
    /\ last = NoCall
    /\ \E kind \in [1..4 -> {"absent", "nolist", "list"}], L \in ListsOver(TocItems, MaxItems) :
         navs = NavsWith(kind, L)
    /\ RunAt("start")

\* the document parses; toc_sections = parse_toc(soup)
ParseTocStep ==
    /\ pc = "start"
    /\ toc' = ParseToc(navs)
    /\ pc' = "check"
    /\ UNCHANGED <<single, files, tree, navs, section_map, idx, md, status, writes, dir_created, readme,
                   summary, exit_code>>

NextToc == ParseTocStep

SpecToc == InitToc /\ [][NextToc]_vars

\* ------------------------------------------------------------------ claims on SpecToc

\* the list items of the container parse_toc reads
ItemsRead ==
    IF FindTocNav(navs) = 0 \/ ~navs[FindTocNav(navs)].has_list THEN <<>>
    ELSE navs[FindTocNav(navs)].items

IsValidItem(li) == li.link /\ li.href # <<>> /\ li.href[1] = "#"

\* C9: the entries are numbered 1, 2, ..., n in list order, an item skipped
\* for having no link or a link not starting with '#' takes no number, and
\* each file name is the number zero-padded to two digits, a hyphen, the slug
\* of the title and '.md'.
C9_SequenceNumbers ==
    pc # "start" =>
        /\ Len(toc) = Cardinality({k \in 1..Len(ItemsRead) : IsValidItem(ItemsRead[k])})
        /\ \A k \in 1..Len(toc) :
            /\ toc[k].number = k
            /\ toc[k].filename =
                 Format02d(k) \o <<"-">> \o Slugify(toc[k].title) \o <<".", "m", "d">>
\* an entry that follows a skipped item
C9_Witness ==
    /\ pc # "start"
    /\ Len(toc) >= 1
    /\ ~IsValidItem(ItemsRead[1])

\* C10: no two entries of the list parse_toc returns carry the same anchor id.
C10_AnchorIdsUnique ==
    \A a, b \in 1..Len(toc) : toc[a].id = toc[b].id => a = b

\* the containers that exist, hold a list and yield at least one entry
YieldingContainers ==
    {k \in 1..4 : navs[k].present /\ navs[k].has_list /\ TocLoop(navs[k].items, 1, <<>>) # <<>>}

\* C11: the four containers are tried in priority order and the first one
\* that yields a non-empty list of entries wins, also when an earlier one
\* exists but has no list or yields no entries.
C11_FirstYieldingContainerWins ==
    pc # "start" =>
        toc = IF YieldingContainers = {} THEN <<>>
              ELSE TocLoop(navs[SetMin(YieldingContainers)].items, 1, <<>>)

\* ------------------------------------------------------------------ Spec:
\* convert_html_to_markdown on one document

\* what the loop body does to the markdown, in order, before the next stage
\* "write"; cleaning after the links have been rewritten
NextStageLinksFirst(stage) ==
    IF stage = "render" THEN "links"
    ELSE IF stage = "links" THEN "clean"
    ELSE "write"

\* the loop body: convert_soup, clean_markdown, fix_internal_links, write_text
NextStage(stage) ==
    IF stage = "render" THEN "clean"
    ELSE IF stage = "clean" THEN "links"
    ELSE "write"

TocIsEmptyNever(sections) == FALSE

\* if not toc_sections
TocIsEmpty(sections) == sections = <<>>

\* the lines generate_readme writes, one per section
ReadmeLines(sections) ==
    [k \in 1..Len(sections) |->
        [number |-> sections[k].number, title |-> sections[k].title,
         filename |-> sections[k].filename]]

\* what the final log line reports as the number of files created
FilesCreatedLogged(sections, outcomes) == Len(sections)

ConvertShapes ==
    {[tag |-> "h2", id |-> i, href |-> <<>>] : i \in {AnchorA, AnchorB, <<>>}}
    \cup {[tag |-> "p", id |-> <<>>, href |-> <<>>]}

ConvertItems ==
    {Item(FALSE, <<>>, <<>>),
     Item(TRUE, Hash \o AnchorA, <<" ", "A", " ", "b">>),
     Item(TRUE, Hash \o AnchorB, <<"a", "-", "b">>)}

Init ==
    /\ doc \in DocsOver(ConvertShapes, MaxNodes)
    /\ detached = {}
    /\ claimed = [n \in 1..Len(doc) |-> 0]
    /\ last = NoCall
    /\ \E kind \in {[k \in 1..4 |-> "absent"], [k \in 1..4 |-> IF k = 1 THEN "list" ELSE "absent"]},
          L \in ListsOver(ConvertItems, MaxEntries) :
         navs = NavsWith(kind, L)
    /\ RunAt("start")

\* the positions of the three sys.exit(1) calls
ExitPositions == {"exit_parse", "exit_toc", "exit_mkdir"}

\* BeautifulSoup(html_content, 'lxml') raises: sys.exit(1)
ParseHtmlFail ==
    /\ pc = "start"
    /\ pc' = "exit_parse"
    /\ exit_code' = 1
    /\ UNCHANGED <<single, files, tree, navs, toc, section_map, idx, md, status, writes, dir_created,
                   readme, summary>>

\* no sections in the table of contents: sys.exit(1)
TocEmptyExit ==
    /\ pc = "check"
    /\ TocIsEmpty(toc)
    /\ pc' = "exit_toc"
    /\ exit_code' = 1
    /\ UNCHANGED <<single, files, tree, navs, toc, section_map, idx, md, status, writes, dir_created,
                   readme, summary>>

\* build_section_map, then output_dir.mkdir succeeds
MkdirOk ==
    /\ pc = "check"
    /\ ~TocIsEmpty(toc)
    /\ section_map' = BuildSectionMap(toc, <<>>)
    /\ dir_created' = TRUE
    /\ pc' = "loop"
    /\ UNCHANGED <<single, files, tree, navs, toc, idx, md, status, writes, readme, summary, exit_code>>

\* build_section_map, then output_dir.mkdir raises OSError: sys.exit(1)
MkdirFail ==
    /\ pc = "check"
    /\ ~TocIsEmpty(toc)
    /\ section_map' = BuildSectionMap(toc, <<>>)
    /\ pc' = "exit_mkdir"
    /\ exit_code' = 1
    /\ UNCHANGED <<single, files, tree, navs, toc, idx, md, status, writes, dir_created, readme, summary>>

\* the loop's next entry: extract_section_content; nothing found: continue
ExtractStep ==
    /\ pc = "loop"
    /\ idx <= Len(toc)
    /\ LET r == ExtractSectionContent(doc, detached, toc[idx].id)
       IN /\ detached' = r.det
          /\ claimed' = Claim(doc, detached, claimed, r.nodes)
          /\ last' = [called |-> TRUE, sid |-> toc[idx].id, found |-> r.found,
                      header |-> r.header, nodes |-> r.nodes, before |-> detached]
          /\ IF r.found
             THEN /\ pc' = "render"
                  /\ UNCHANGED <<idx, status>>
             ELSE /\ pc' = "loop"
                  /\ idx' = idx + 1
                  /\ status' = Append(status, [result |-> "no_content", nodes |-> <<>>])
    /\ UNCHANGED <<single, files, doc, navs, toc, section_map, md, writes, dir_created, readme, summary,
                   exit_code>>

\* markdown_content = converter.convert_soup(section_html)
RenderStep ==
    /\ pc = "render"
    /\ md' = [src |-> last.nodes, steps |-> <<"render">>]
    /\ pc' = NextStage("render")
    /\ UNCHANGED <<single, files, tree, navs, toc, section_map, idx, status, writes, dir_created, readme,
                   summary, exit_code>>

\* markdown_content = clean_markdown(markdown_content)
CleanStep ==
    /\ pc = "clean"
    /\ md' = [md EXCEPT !.steps = Append(@, "clean")]
    /\ pc' = NextStage("clean")
    /\ UNCHANGED <<single, files, tree, navs, toc, section_map, idx, status, writes, dir_created, readme,
                   summary, exit_code>>

\* markdown_content = fix_internal_links(markdown_content, filename, section_map)
FixLinksStep ==
    /\ pc = "links"
    /\ md' = [md EXCEPT !.steps = Append(@, "links")]
    /\ pc' = NextStage("links")
    /\ UNCHANGED <<single, files, tree, navs, toc, section_map, idx, status, writes, dir_created, readme,
                   summary, exit_code>>

\* the write fails and the loop stops there
WriteFailAborts ==
    /\ pc = "write"
    /\ pc' = "exit_write"
    /\ exit_code' = 1
    /\ status' = Append(status, [result |-> "write_failed", nodes |-> md.src])
    /\ UNCHANGED <<single, files, tree, navs, toc, section_map, idx, md, writes, dir_created, readme,
                   summary>>

\* output_file.write_text succeeds
WriteOk ==
    /\ pc = "write"
    /\ writes' = Append(writes, [entry |-> idx, filename |-> toc[idx].filename,
                                 content |-> md])
    /\ status' = Append(status, [result |-> "written", nodes |-> md.src])
    /\ idx' = idx + 1
    /\ pc' = "loop"
    /\ UNCHANGED <<single, files, tree, navs, toc, section_map, md, dir_created, readme, summary,
                   exit_code>>

\* output_file.write_text raises OSError: log and continue
WriteFail ==
    /\ pc = "write"
    /\ status' = Append(status, [result |-> "write_failed", nodes |-> md.src])
    /\ idx' = idx + 1
    /\ pc' = "loop"
    /\ UNCHANGED <<single, files, tree, navs, toc, section_map, md, writes, dir_created, readme, summary,
                   exit_code>>

\* generate_readme after the loop, README.md written
ReadmeOk ==
    /\ pc = "loop"
    /\ idx > Len(toc)
    /\ readme' = Append(readme, ReadmeLines(toc))
    /\ pc' = "summary"
    /\ UNCHANGED <<single, files, tree, navs, toc, section_map, idx, md, status, writes, dir_created,
                   summary, exit_code>>

\* generate_readme after the loop, the write raises IOError, which
\* convert_html_to_markdown does not catch
ReadmeFail ==
    /\ pc = "loop"
    /\ idx > Len(toc)
    /\ pc' = "raised"
    /\ UNCHANGED <<single, files, tree, navs, toc, section_map, idx, md, status, writes, dir_created,
                   readme, summary, exit_code>>

\* the final log line: "Conversion complete! %d files created"
LogSummary ==
    /\ pc = "summary"
    /\ summary' = Append(summary, FilesCreatedLogged(toc, status))
    /\ pc' = "done"
    /\ UNCHANGED <<single, files, tree, navs, toc, section_map, idx, md, status, writes, dir_created,
                   readme, exit_code>>

Next ==
    \/ ParseHtmlFail
    \/ ParseTocStep
    \/ TocEmptyExit
    \/ MkdirOk
    \/ MkdirFail
    \/ ExtractStep
    \/ RenderStep
    \/ CleanStep
    \/ FixLinksStep
    \/ WriteOk
    \/ WriteFail
    \/ ReadmeOk
    \/ ReadmeFail
    \/ LogSummary

Spec == Init /\ [][Next]_vars

\* ------------------------------------------------------------------ claims on Spec

\* the loop has gone through every entry of the table of contents
AllProcessed == pc \in {"summary", "done", "raised"} \/ (pc = "loop" /\ idx > Len(toc))

RECURSIVE Concat(_)
Concat(seqs) == IF seqs = <<>> THEN <<>> ELSE Head(seqs) \o Concat(Tail(seqs))

\* the nodes of the extracted sections, in the order of extraction
ExtractedNodes == Concat([k \in 1..Len(status) |-> status[k].nodes])

\* the headings the extractor recognised for the entries
RecognizedHeadings == {status[k].nodes[1] : k \in {j \in 1..Len(status) : status[j].nodes # <<>>}}

\* the sibling nodes from the first recognised heading up to the last one
BetweenRecognized ==
    IF RecognizedHeadings = {} THEN {}
    ELSE LET first == SetMin(RecognizedHeadings)
             final == CHOOSE h \in RecognizedHeadings : \A g \in RecognizedHeadings : g <= h
         IN {m \in first..final : Parent(doc, m) = Parent(doc, first)}

\* C2: once every TOC entry has been extracted in TOC order, the sections'
\* node lists, concatenated, hold every sibling node lying between the first
\* and the last recognised heading of the original document exactly once:
\* none is left unclaimed in the tree, none appears twice.
C2_NoNodeLostOrDuplicated ==
    AllProcessed =>
        \A m \in BetweenRecognized :
            Cardinality({k \in 1..Len(ExtractedNodes) : ExtractedNodes[k] = m}) = 1

\* C5: with an empty list from parse_toc the run ends in exit code 1, and
\* the output directory is not created, no section is extracted or written
\* and no index is written.
C5_EmptyTocAborts ==
    (pc # "start" /\ toc = <<>>) =>
        /\ pc \in {"check", "exit_toc", "exit_parse"}
        /\ (pc \in {"exit_toc", "exit_parse"} => exit_code = 1)
        /\ ~dir_created
        /\ ~last.called
        /\ detached = {}
        /\ status = <<>>
        /\ writes = <<>>
        /\ readme = <<>>

\* the run has exited on an empty table of contents
C5_Witness == pc = "exit_toc" /\ toc = <<>> /\ exit_code = 1

\* C6: an entry whose extraction returns nothing or whose write fails is
\* skipped: it is not tried again, every later entry is still processed, the
\* run is not aborted and generate_readme is still reached and writes the index.
C6_FailureSkipsEntryOnly ==
    /\ Len(status) = idx - 1
    /\ (exit_code # -1 => status = <<>> /\ pc \in ExitPositions)
    /\ (pc \in {"summary", "done", "raised"} => Len(status) = Len(toc))
    /\ (pc \in {"summary", "done"} => Len(readme) = 1)
    /\ (status # <<>> /\ pc = "loop" => (idx <= Len(toc) \/ ENABLED ReadmeOk))

\* a finished run in which an entry failed and a later one was written
C6_Witness ==
    /\ pc = "done"
    /\ \E a, b \in 1..Len(status) :
        /\ a < b
        /\ status[a].result \in {"no_content", "write_failed"}
        /\ status[b].result = "written"

\* C7: the final summary reports the number of sections actually written,
\* not the number of TOC entries.
C7_SummaryCountsWritten ==
    pc = "done" =>
        summary = <<Cardinality({k \in 1..Len(status) : status[k].result = "written"})>>

\* C8: per entry the steps are extract, render, clean, rewrite links, write,
\* in that order; entries are processed in TOC order; README.md is written
\* once, after the last entry, and lists every TOC entry in TOC order with
\* its number, title and file name.
C8_PipelineOrder ==
    /\ (pc = "clean" => md.steps = <<"render">>)
    /\ (pc = "links" => md.steps = <<"render", "clean">>)
    /\ (pc = "write" => md.steps = <<"render", "clean", "links">>)
    /\ (pc \in {"clean", "links", "write"} => last.found /\ md.src = last.nodes
                                                /\ last.sid = toc[idx].id)
    /\ \A w \in 1..Len(writes) :
        /\ writes[w].content.steps = <<"render", "clean", "links">>
        /\ writes[w].content.src = status[writes[w].entry].nodes
        /\ writes[w].filename = toc[writes[w].entry].filename
        /\ \A v \in 1..Len(writes) : v < w => writes[v].entry < writes[w].entry
    /\ Len(readme) <= 1
    /\ (readme # <<>> =>
            /\ Len(status) = Len(toc)
            /\ Len(readme[1]) = Len(toc)
            /\ \A k \in 1..Len(toc) :
                readme[1][k] = [number |-> k, title |-> toc[k].title,
                                filename |-> toc[k].filename])

\* a finished run that wrote two sections and then the index
C8_Witness == pc = "done" /\ Len(writes) >= 2 /\ Len(readme) = 1

\* two entries whose titles have the same slug
SlugsCollide(a, b) == a # b /\ Slugify(toc[a].title) = Slugify(toc[b].title)

\* C12 as stated: entries whose titles collide after slugification have the
\* same file name, and the later file replaces the earlier one.
C12_CollidingTitlesShareFile ==
    \A a, b \in 1..Len(toc) : SlugsCollide(a, b) => toc[a].filename = toc[b].filename

\* C12 as amended: entries whose titles collide after slugification still
\* get different file names, because the name starts with the entry's own
\* sequence number; no section file is written over another entry's file.
C12_CollidingTitlesKeepOwnFile ==
    /\ \A a, b \in 1..Len(toc) : SlugsCollide(a, b) => toc[a].filename # toc[b].filename
    /\ \A v, w \in 1..Len(writes) : v # w => writes[v].filename # writes[w].filename

\* a finished run that wrote two sections whose titles have the same slug
C12_Witness ==
    /\ pc = "done"
    /\ \E v, w \in 1..Len(writes) : SlugsCollide(writes[v].entry, writes[w].entry)

\* ------------------------------------------------------------------ SpecLinks:
\* one call of fix_internal_links on a content put together from pieces

\* number of pieces of a content
MaxPieces == 3

Link(text, target) == [kind |-> "link", text |-> text, target |-> target]

Plain(text) == [kind |-> "text", text |-> text, target |-> <<>>]

Render(piece) == IF piece.kind = "link" THEN LinkTo(piece.text, piece.target) ELSE piece.text

AnchorAB == <<"A", "B">>

AnchorZ == <<"Z">>

ExternalUrl == <<"h", "t", "t", "p", ":", "x">> \o Hash \o TocPrefix \o AnchorA

FileA == <<"0", "1", "-", "a", ".", "m", "d">>

FileB == <<"0", "2", "-", "b", ".", "m", "d">>

\* links to anchors, with the "toc-" prefix, without it and with the prefix
\* twice, an external link, plain text, a line break and the brackets of a
\* broken link
LinkPieces ==
    {Link(<<"a">>, Hash \o a) :
        a \in {AnchorA, TocPrefix \o AnchorA, TocPrefix \o TocPrefix \o AnchorA, AnchorAB, AnchorZ}}
    \cup {Link(<<"e">>, ExternalUrl)}
    \cup {Plain(t) : t \in {<<" ">>, <<"\n">>, <<"[">>, <<"]", "(", "#">>}}

RECURSIVE PiecesOver(_)
PiecesOver(n) ==
    IF n = 0 THEN {<<>>}
    ELSE LET shorter == PiecesOver(n - 1)
         IN shorter \cup {Append(ps, p) : ps \in {q \in shorter : Len(q) = n - 1}, p \in LinkPieces}

SectionMaps ==
    {<<>>,
     <<[id |-> AnchorA, filename |-> FileA]>>,
     <<[id |-> AnchorA, filename |-> FileA], [id |-> AnchorAB, filename |-> FileB]>>,
     <<[id |-> AnchorAB, filename |-> FileB], [id |-> AnchorA, filename |-> FileA]>>}

InitLinks ==
    /\ NoConversion
    /\ call = "fix_internal_links"
    /\ args \in {[pieces |-> ps,
                  content |-> Concat([k \in 1..Len(ps) |-> Render(ps[k])]),
                  current_file |-> f,
                  section_map |-> m] :
                    ps \in PiecesOver(MaxPieces), f \in {FileA, FileB}, m \in SectionMaps}
    /\ result = Pending

FixLinksCall ==
    /\ call = "fix_internal_links"
    /\ ~result.returned
    /\ result' = Returned(FixInternalLinks(args.content, args.current_file, args.section_map))
    /\ UNCHANGED <<tree, run, files, call, args>>

NextLinks == FixLinksCall

SpecLinks == InitLinks /\ [][NextLinks]_vars

\* ------------------------------------------------------------------ claims on SpecLinks

\* in how many places s holds x
Occurrences(s, x) == Cardinality({k \in 1..(Len(s) - Len(x) + 1) : SubSeq(s, k, k + Len(x) - 1) = x})

LinksReturned == call = "fix_internal_links" /\ result.returned

\* a link whose text holds no bracket and whose target no bracket and no parenthesis
IsWellFormedLink(piece) ==
    /\ piece.kind = "link"
    /\ Range(piece.text) \cap {"[", "]", "\n"} = {}
    /\ Range(piece.target) \cap {"[", "]", "(", ")"} = {}

IsExternalLink(piece) ==
    IsWellFormedLink(piece) /\ StartsWith(piece.target, <<"h", "t", "t", "p">>)

IsAnchorLink(piece) == IsWellFormedLink(piece) /\ StartsWith(piece.target, Hash)

\* C13: every external link [text](http...) of the input stands unchanged in
\* the output, as often as in the input at least, also when an anchor link
\* follows it on the same line
C13_ExternalLinksUnchanged ==
    LinksReturned =>
        \A k \in 1..Len(args.pieces) :
            IsExternalLink(args.pieces[k]) =>
                Occurrences(result.value, Render(args.pieces[k]))
                    >= Occurrences(args.content, Render(args.pieces[k]))

\* an external link, then an anchor link on the same line that is rewritten
\* to another file
C13_Witness ==
    /\ LinksReturned
    /\ \E k \in 1..(Len(args.pieces) - 1) :
        /\ IsExternalLink(args.pieces[k])
        /\ IsAnchorLink(args.pieces[k + 1])
        /\ result.value # args.content
        /\ Occurrences(result.value, FileA) + Occurrences(result.value, FileB) > 0

\* the content is made of well-formed links, blanks and line breaks only
IsWellFormedContent ==
    \A k \in 1..Len(args.pieces) :
        \/ IsWellFormedLink(args.pieces[k])
        \/ args.pieces[k] \in {Plain(<<" ">>), Plain(<<"\n">>)}

\* the anchor of an anchor link, without "#" and without a leading "toc-"
NormalizedAnchor(piece) ==
    LET a == Tail(piece.target)
    IN IF Len(a) >= 4 /\ SubSeq(a, 1, 4) = <<"t", "o", "c", "-">> THEN SubSeq(a, 5, Len(a)) ELSE a

\* the files of the section map's keys the anchor equals or starts with
ResolvedFiles(piece) ==
    {args.section_map[k].filename :
        k \in {j \in 1..Len(args.section_map) :
                StartsWith(NormalizedAnchor(piece), args.section_map[j].id)}}

BareLink(piece) == LinkTo(piece.text, Hash \o NormalizedAnchor(piece))

\* what a piece may become: an anchor link resolved to another file names
\* the file, an anchor link resolved to the current file or to none is bare,
\* anything else stays
Rewritings(piece) ==
    IF ~IsAnchorLink(piece) THEN {Render(piece)}
    ELSE IF ResolvedFiles(piece) = {} THEN {BareLink(piece)}
    ELSE {IF f = args.current_file THEN BareLink(piece)
          ELSE LinkTo(piece.text, f \o Hash \o NormalizedAnchor(piece)) :
            f \in ResolvedFiles(piece)}

RECURSIVE RewritingsOf(_)
RewritingsOf(ps) ==
    IF ps = <<>> THEN {<<>>}
    ELSE {x \o y : x \in Rewritings(Head(ps)), y \in RewritingsOf(Tail(ps))}

\* C14: an anchor link loses a leading "toc-", its anchor is resolved against
\* the section map, and it becomes (file#anchor) when the file is another one
\* than the current file and (#anchor) when it is the current file
C14_AnchorLinksResolved ==
    (LinksReturned /\ IsWellFormedContent) => result.value \in RewritingsOf(args.pieces)

\* [a](#toc-A) with A in 01-a.md: from 02-b.md it is [a](01-a.md#A), in
\* 01-a.md itself [a](#A)
C14_Witness ==
    /\ LinksReturned
    /\ IsWellFormedContent
    /\ Link(<<"a">>, Hash \o TocPrefix \o AnchorA) \in Range(args.pieces)
    /\ args.section_map = <<[id |-> AnchorA, filename |-> FileA]>>
    /\ \/ /\ args.current_file = FileB
          /\ Occurrences(result.value, LinkTo(<<"a">>, FileA \o Hash \o AnchorA)) > 0
       \/ /\ args.current_file = FileA
          /\ Occurrences(result.value, LinkTo(<<"a">>, Hash \o AnchorA)) > 0

IsUnmatched(piece) == IsAnchorLink(piece) /\ ResolvedFiles(piece) = {}

\* C15: an anchor link whose anchor matches no key of the section map comes
\* out as the bare link (#anchor), and every other piece of the content comes
\* out as it does on its own
C15_UnmatchedAnchorStaysBare ==
    (LinksReturned /\ IsWellFormedContent) =>
        result.value =
            Concat([k \in 1..Len(args.pieces) |->
                IF IsUnmatched(args.pieces[k]) THEN BareLink(args.pieces[k])
                ELSE FixInternalLinks(Render(args.pieces[k]), args.current_file,
                                      args.section_map)])

\* an unmatched link next to a link that is rewritten to another file
C15_Witness ==
    /\ LinksReturned
    /\ IsWellFormedContent
    /\ args.section_map # <<>>
    /\ \E k \in 1..Len(args.pieces) : IsUnmatched(args.pieces[k])
    /\ \E k \in 1..Len(args.pieces) :
        /\ IsAnchorLink(args.pieces[k])
        /\ ResolvedFiles(args.pieces[k]) \ {args.current_file} # {}
    /\ args.section_map[1].filename # args.current_file

\* the file of the section map's key the anchor is equal to
ExactFile(piece) ==
    LET hits == {k \in 1..Len(args.section_map) :
                    args.section_map[k].id = NormalizedAnchor(piece)}
    IN args.section_map[SetMin(hits)].filename

HasExactKey(piece) ==
    /\ IsAnchorLink(piece)
    /\ \E k \in 1..Len(args.section_map) : args.section_map[k].id = NormalizedAnchor(piece)

\* the link as it is when it resolves to the file f
ResolvedTo(piece, f) ==
    IF f = args.current_file THEN BareLink(piece)
    ELSE LinkTo(piece.text, f \o Hash \o NormalizedAnchor(piece))

\* C27: an anchor link whose anchor is equal to a key of the section map
\* resolves to the file of that key, also when a key that is a proper prefix
\* of the anchor stands earlier in the map; every other piece comes out as it
\* does on its own
C27_ExactKeyWinsOverPrefix ==
    (LinksReturned /\ IsWellFormedContent) =>
        result.value =
            Concat([k \in 1..Len(args.pieces) |->
                IF HasExactKey(args.pieces[k])
                THEN ResolvedTo(args.pieces[k], ExactFile(args.pieces[k]))
                ELSE FixInternalLinks(Render(args.pieces[k]), args.current_file,
                                      args.section_map)])

\* C29: fix_internal_links is idempotent for a fixed current file and section
\* map: applied to its own output it changes nothing
C29_FixInternalLinksIdempotent ==
    LinksReturned =>
        FixInternalLinks(result.value, args.current_file, args.section_map) = result.value

\* ------------------------------------------------------------------ SpecSlug:
\* one call of slugify on a text of a few characters

\* number of characters of a text
MaxChars == 4

\* an upper-case letter, a lower-case letter, a digit, the underscore, the
\* hyphen, whitespace and punctuation
SlugChars == {"A", "b", "1", "_", "-", " ", "!"}

RECURSIVE TextsOver(_, _)
TextsOver(chars, n) ==
    IF n = 0 THEN {<<>>}
    ELSE LET shorter == TextsOver(chars, n - 1)
         IN shorter \cup {Append(t, c) : t \in {u \in shorter : Len(u) = n - 1}, c \in chars}

InitSlug ==
    /\ NoConversion
    /\ call = "slugify"
    /\ args \in {[text |-> t] : t \in TextsOver(SlugChars, MaxChars)}
    /\ result = Pending

SlugifyCall ==
    /\ call = "slugify"
    /\ ~result.returned
    /\ result' = Returned(Slugify(args.text))
    /\ UNCHANGED <<tree, run, files, call, args>>

NextSlug == SlugifyCall

SpecSlug == InitSlug /\ [][NextSlug]_vars

\* ------------------------------------------------------------------ claims on SpecSlug

SlugReturned == call = "slugify" /\ result.returned

\* C17: slugify is idempotent: the slug of a slug is that slug
C17_SlugifyIdempotent == SlugReturned => Slugify(result.value) = result.value

\* a text with an upper-case letter, whitespace and a hyphen at its end, of
\* which a slug remains
C17_Witness ==
    /\ SlugReturned
    /\ result.value # <<>>
    /\ {"A", " "} \subseteq Range(args.text)
    /\ args.text[Len(args.text)] = "-"

\* C18: a slug holds lower-case letters, digits and hyphens only, no two
\* hyphens next to each other, and no hyphen at its start or end
C18_OnlyAlnumAndSingleHyphens ==
    SlugReturned =>
        /\ Range(result.value) \subseteq Range(LowerCase) \cup Range(DigitChars) \cup {"-"}
        /\ \A k \in 1..(Len(result.value) - 1) :
            ~(result.value[k] = "-" /\ result.value[k + 1] = "-")
        /\ result.value # <<>> => result.value[1] # "-" /\ result.value[Len(result.value)] # "-"

\* ------------------------------------------------------------------ SpecClean:
\* one call of clean_markdown on a content put together from parts

\* number of parts of a content
MaxParts == 4

\* an encoded ampersand and the rest of an entity, a fence, inline code, one
\* and two line breaks, a letter, a list marker, a heading linked to the
\* table of contents
CleanParts ==
    {<<"&", "a", "m", "p", ";">>,
     <<"l", "t", ";">>,
     Fence,
     <<Backtick, "x", Backtick>>,
     <<"\n">>,
     <<"\n", "\n">>,
     <<"x">>,
     <<"*", " ">>,
     <<"#", " ", "[", "t", "]", "(", "#", "t", "o", "c", "-", "A", ")">>}

RECURSIVE PartsOver(_)
PartsOver(n) ==
    IF n = 0 THEN {<<>>}
    ELSE LET shorter == PartsOver(n - 1)
         IN shorter \cup {Append(ps, p) : ps \in {q \in shorter : Len(q) = n - 1}, p \in CleanParts}

InitClean ==
    /\ NoConversion
    /\ call = "clean_markdown"
    /\ args \in {[content |-> Concat(ps)] : ps \in PartsOver(MaxParts)}
    /\ result = Pending

CleanCall ==
    /\ call = "clean_markdown"
    /\ ~result.returned
    /\ result' = Returned(CleanMarkdown(args.content))
    /\ UNCHANGED <<tree, run, files, call, args>>

NextClean == CleanCall

SpecClean == InitClean /\ [][NextClean]_vars

\* ------------------------------------------------------------------ claims on SpecClean

\* C16: clean_markdown is idempotent: cleaning a cleaned content gives that
\* content again
C16_CleanMarkdownIdempotent ==
    (call = "clean_markdown" /\ result.returned) => CleanMarkdown(result.value) = result.value

\* the positions where a line of s starts with a fence marker
FenceLines(s) == {i \in 1..Len(s) : HasAt(s, i, Fence) /\ (i = 1 \/ s[i - 1] = "\n")}

\* the first position before i, going backwards, that holds no line break; 0
\* when only line breaks stand before i
RECURSIVE RunStart(_, _)
RunStart(s, i) == IF i = 0 \/ s[i] # "\n" THEN i ELSE RunStart(s, i - 1)

\* exactly one blank line stands between the line starting at i and the text
\* before it; a line at the very start of the content has nothing before it
OneBlankLineBefore(s, i) ==
    LET b == RunStart(s, i - 1) IN b = 0 \/ (i - 1) - b = 2

\* exactly one blank line stands between the line starting at i and the text
\* after it; a line at the very end of the content has nothing after it
OneBlankLineAfter(s, i) ==
    LET e == RunEnd(s, i, {c \in Range(s) : c # "\n"})
        f == RunEnd(s, e, {"\n"})
    IN f > Len(s) \/ f - e = 2

\* C24: in the content clean_markdown returns, exactly one blank line stands
\* before and exactly one after every line that starts with a fence marker,
\* however many blank lines (none, one or two) the input had there.
C24_OneBlankLineAroundFences ==
    (call = "clean_markdown" /\ result.returned) =>
        \A i \in FenceLines(result.value) :
            OneBlankLineBefore(result.value, i) /\ OneBlankLineAfter(result.value, i)

\* ------------------------------------------------------------------ SpecPre:
\* one call of convert_pre on a <pre> element

\* number of characters of the text of a <code> element
MaxCode == 4

CodeChars == {Backtick, "x", " ", "\n"}

NoSibling == [name |-> "", classes |-> {}, text |-> <<>>]

PrevSiblings ==
    {NoSibling,
     [name |-> "p", classes |-> {FileClass}, text |-> <<"a", ".", "z", "i", "g", " ">>],
     [name |-> "p", classes |-> {}, text |-> <<"x">>]}

CodeClasses == {{}, {<<"c">>, <<"s", "h", "e", "l", "l">>}, {<<"o", "t", "h", "e", "r">>}}

PreElements ==
    {PreElement(f, p, TRUE, t, c, s, <<"t">>) :
        f \in BOOLEAN, p \in {"div", "td"}, t \in TextsOver(CodeChars, MaxCode),
        c \in CodeClasses, s \in PrevSiblings}
    \cup {PreElement(f, p, FALSE, <<>>, {}, s, <<"t">>) :
        f \in BOOLEAN, p \in {"div", "td"}, s \in PrevSiblings}

InitPre ==
    /\ NoConversion
    /\ call = "convert_pre"
    /\ args \in {[el |-> el] : el \in PreElements}
    /\ result = Pending

ConvertPreCall ==
    /\ call = "convert_pre"
    /\ ~result.returned
    /\ result' = Returned(ConvertPre(args.el))
    /\ UNCHANGED <<tree, run, files, call, args>>

NextPre == ConvertPreCall

SpecPre == InitPre /\ [][NextPre]_vars

\* ------------------------------------------------------------------ claims on SpecPre

\* the element is neither in a figure nor in a table cell, and the text of its
\* <code>, without the whitespace around it, is inner between two backticks
IsStandaloneWrapping(el, inner) ==
    /\ ~el.in_figure
    /\ el.parent \notin {"td", "th"}
    /\ el.has_code
    /\ Strip(el.code_text) = <<Backtick>> \o inner \o <<Backtick>>

InnerTexts == {SubSeq(t, 2, Len(t) - 1) : t \in {Strip(args.el.code_text)}}

\* C19: a standalone <pre> whose code is wrapped in backticks becomes a fenced
\* block whose lines between the fences are the code without the wrapping
\* backticks, hence not the text with them
C19_WrappedCodeIsUnwrapped ==
    (call = "convert_pre" /\ result.returned) =>
        \A inner \in InnerTexts :
            IsStandaloneWrapping(args.el, inner) =>
                result.value = [super |-> FALSE,
                                text |-> <<"\n">> \o Fence \o <<"\n">> \o inner
                                         \o <<"\n">> \o Fence \o <<"\n">>]

\* `x` with whitespace around it, in a <pre> with a language class and a file
\* label before it
C19_Witness ==
    /\ call = "convert_pre" /\ result.returned
    /\ IsStandaloneWrapping(args.el, <<"x">>)
    /\ args.el.code_text # Strip(args.el.code_text)
    /\ args.el.code_classes # {}
    /\ args.el.prev.name = "p" /\ FileClass \in args.el.prev.classes

\* ------------------------------------------------------------------ SpecParagraph:
\* a paragraph and the element after it are rendered, in document order

FileParagraph == [name |-> "p", classes |-> {FileClass}, text |-> <<"a", ".", "z", "i", "g", " ">>]

PlainParagraph == [name |-> "p", classes |-> {}, text |-> <<"x">>]

\* the <pre> elements that can stand after the paragraph p
PreElementsAfter(p) ==
    {PreElement(f, q, TRUE, t, c, p, <<"t">>) :
        f \in BOOLEAN, q \in {"div", "td"}, t \in TextsOver(CodeChars, MaxCode),
        c \in CodeClasses}
    \cup {PreElement(f, q, FALSE, <<>>, {}, p, <<"t">>) : f \in BOOLEAN, q \in {"div", "td"}}

\* the paragraph, the name of the element after it, and that element when
\* it is a <pre>
ParagraphArgs ==
    {[p |-> p, next |-> "pre", el |-> el] :
        p \in {FileParagraph, PlainParagraph}, el \in PreElementsAfter(FileParagraph)
                                                      \cup PreElementsAfter(PlainParagraph)}
    \cup {[p |-> p, next |-> "div", el |-> PreElement(FALSE, "div", FALSE, <<>>, {}, p, <<>>)] :
            p \in {FileParagraph, PlainParagraph}}

InitParagraph ==
    /\ NoConversion
    /\ call = "convert_p"
    /\ args \in {a \in ParagraphArgs : a.el.prev = a.p}
    /\ result = Pending

\* convert_p on the paragraph; the conversion goes on with a <pre> after it
ConvertPCall ==
    /\ call = "convert_p"
    /\ result = Pending
    /\ result' = [returned |-> args.next # "pre", value |-> <<ConvertP(args.p, args.next)>>]
    /\ UNCHANGED <<tree, run, files, call, args>>

\* convert_pre on the <pre> after the paragraph
ConvertPreAfterP ==
    /\ call = "convert_p"
    /\ ~result.returned
    /\ Len(result.value) = 1
    /\ result' = Returned(Append(result.value, ConvertPre(args.el)))
    /\ UNCHANGED <<tree, run, files, call, args>>

NextParagraph == ConvertPCall \/ ConvertPreAfterP

SpecParagraph == InitParagraph /\ [][NextParagraph]_vars

\* ------------------------------------------------------------------ claims on SpecParagraph

\* the file name of the paragraph as a bolded label
BoldLabel(p) == <<"*", "*", Backtick>> \o Strip(p.text) \o <<Backtick, ":", "*", "*">>

\* C25: when convert_p has rendered a file-label paragraph as empty because a
\* <pre> follows it, the rendering of that <pre> by convert_pre holds the file
\* name as a bolded label, so that the label stands exactly once in the output:
\* also when the code is wrapped in backticks, the <pre> is in a table cell or
\* has no <code> element. (A <pre> in a figure, left to the base class, is not
\* counted.)
C25_FileLabelNeverLost ==
    (/\ call = "convert_p" /\ result.returned /\ Len(result.value) = 2
     /\ result.value[1] = OwnText(<<>>)
     /\ ~args.el.in_figure) =>
        Occurrences(result.value[1].text \o result.value[2].text, BoldLabel(args.p)) = 1

\* ------------------------------------------------------------------ SpecDetect:
\* ZigVersionDetector.detect (zig-programming/scripts/detect_version.py) in a
\* project directory

\* what `zig version` does: it prints a version, it ends with another return
\* code, or it cannot be run (not found, timed out)
CommandOutcomes == {"prints_version", "fails", "not_found"}

\* build.zig.zon: absent, with .minimum_zig_version, without it, not readable
BuildZonFiles == {"absent", "minimum_version", "no_version", "unreadable"}

\* build.zig: absent, with markers of the build API since 0.11, with markers
\* of the older one, with both, with none, not readable
BuildZigFiles == {"absent", "modern", "legacy", "both", "no_marker", "unreadable"}

\* the markers found in the .zig files below the directory
SourceMarkers == SUBSET {"for_loop", "async"}

Detection(version, confidence, source) ==
    [version |-> version, confidence |-> confidence, source |-> source]

None == [version |-> "", confidence |-> "", source |-> "none"]

\* _detect_from_command
DetectFromCommand(project) ==
    IF project.command = "prints_version"
    THEN Detection("0.14.1", "high", "zig_command")
    ELSE None

\* _detect_from_build_zon
DetectFromBuildZon(project) ==
    IF project.build_zon = "minimum_version"
    THEN Detection("0.12.1", "high", "build.zig.zon")
    ELSE None

\* _detect_from_build_zig
DetectFromBuildZig(project) ==
    IF project.build_zig \in {"modern", "both"}
    THEN Detection("0.15.2", "medium", "build.zig_modern_api")
    ELSE IF project.build_zig = "legacy"
    THEN Detection("0.10.1", "medium", "build.zig_legacy_api")
    ELSE None

\* _detect_from_source_files
DetectFromSourceFiles(project) ==
    IF "for_loop" \in project.sources
    THEN Detection("0.13.0", "medium", "source_syntax_for_loop")
    ELSE IF "async" \in project.sources
    THEN Detection("0.10.1", "medium", "source_syntax_async")
    ELSE None

DefaultDetection == Detection("0.15.2", "low", "default")

\* the strategies of detect, in the order of its statements
Strategies == <<"command", "build_zon", "build_zig", "source_files">>

Try(strategy, project) ==
    IF strategy = "command" THEN DetectFromCommand(project)
    ELSE IF strategy = "build_zon" THEN DetectFromBuildZon(project)
    ELSE IF strategy = "build_zig" THEN DetectFromBuildZig(project)
    ELSE DetectFromSourceFiles(project)

InitDetect ==
    /\ NoConversion
    /\ call = "detect"
    /\ args \in [command : CommandOutcomes, build_zon : BuildZonFiles,
                 build_zig : BuildZigFiles, sources : SourceMarkers]
    /\ result = Pending

\* One strategy of detect: the next one in its order, after those tried so
\* far (result.value while detect has not returned); its result is returned
\* if it is one, else detect goes on.
TryStrategy(strategy) ==
    /\ call = "detect"
    /\ ~result.returned
    /\ Len(result.value) < Len(Strategies)
    /\ strategy = Strategies[Len(result.value) + 1]
    /\ LET r == Try(strategy, args)
       IN result' = IF r # None
                    THEN Returned([tried |-> Append(result.value, strategy), found |-> r])
                    ELSE [returned |-> FALSE, value |-> Append(result.value, strategy)]
    /\ UNCHANGED <<tree, run, files, call, args>>

TryCommand == TryStrategy("command")

TryBuildZon == TryStrategy("build_zon")

TryBuildZig == TryStrategy("build_zig")

TrySourceFiles == TryStrategy("source_files")

\* no strategy gave a result: the default
DefaultFallback ==
    /\ call = "detect"
    /\ ~result.returned
    /\ Len(result.value) = Len(Strategies)
    /\ result' = Returned([tried |-> result.value, found |-> DefaultDetection])
    /\ UNCHANGED <<tree, run, files, call, args>>

NextDetect ==
    \/ TryCommand
    \/ TryBuildZon
    \/ TryBuildZig
    \/ TrySourceFiles
    \/ DefaultFallback

SpecDetect == InitDetect /\ [][NextDetect]_vars

\* ------------------------------------------------------------------ claims on SpecDetect

\* the strategy a detection names as its source
StrategyOf(source) ==
    IF source = "zig_command" THEN "command"
    ELSE IF source = "build.zig.zon" THEN "build_zon"
    ELSE IF source \in {"build.zig_modern_api", "build.zig_legacy_api"} THEN "build_zig"
    ELSE IF source \in {"source_syntax_for_loop", "source_syntax_async"} THEN "source_files"
    ELSE "default"

\* the strategy succeeds in the project
Succeeds(strategy, project) ==
    \/ strategy = "command" /\ project.command = "prints_version"
    \/ strategy = "build_zig" /\ project.build_zig \in {"modern", "legacy", "both"}
    \/ strategy = "build_zon" /\ project.build_zon = "minimum_version"
    \/ strategy = "source_files" /\ project.sources # {}

\* the order of the module's docstring: command, build.zig, build.zig.zon, sources
DocumentedOrder == <<"command", "build_zig", "build_zon", "source_files">>

\* C20: detect tries the strategies in the documented order and returns the
\* result of the first that succeeds; with markers in build.zig, a minimum
\* version in build.zig.zon and no zig command, it is the build.zig result
C20_DocumentedOrderFirstSuccess ==
    (call = "detect" /\ result.returned) =>
        LET good == {k \in 1..Len(DocumentedOrder) : Succeeds(DocumentedOrder[k], args)}
        IN /\ result.value.tried = SubSeq(DocumentedOrder, 1, Len(result.value.tried))
           /\ StrategyOf(result.value.found.source) =
                IF good = {} THEN "default" ELSE DocumentedOrder[SetMin(good)]

\* ------------------------------------------------------------------ get_references.py

Stable == <<"0", ".", "1", "5", ".", "2">>

Latest == <<"l", "a", "t", "e", "s", "t">>

AVAILABLE_REFERENCE_VERSIONS == {Stable}

VERSION_FALLBACK_MAP ==
    {[version |-> <<"0", ".", "1", "5", ".", "0">>, reference |-> Stable],
     [version |-> <<"0", ".", "1", "5", ".", "1">>, reference |-> Stable],
     [version |-> <<"0", ".", "1", "4", ".", "0">>, reference |-> Stable],
     [version |-> <<"0", ".", "1", "4", ".", "1">>, reference |-> Stable],
     [version |-> <<"0", ".", "1", "3", ".", "0">>, reference |-> Stable],
     [version |-> <<"0", ".", "1", "3", ".", "1">>, reference |-> Stable],
     [version |-> <<"0", ".", "1", "2", ".", "0">>, reference |-> Stable],
     [version |-> <<"0", ".", "1", "2", ".", "1">>, reference |-> Stable],
     [version |-> <<"0", ".", "1", "1", ".", "0">>, reference |-> Stable],
     [version |-> <<"0", ".", "1", "1", ".", "1">>, reference |-> Stable],
     [version |-> <<"0", ".", "1", "0", ".", "0">>, reference |-> Stable],
     [version |-> <<"0", ".", "1", "0", ".", "1">>, reference |-> Stable],
     [version |-> <<"0", ".", "9", ".", "0">>, reference |-> Stable],
     [version |-> <<"0", ".", "9", ".", "1">>, reference |-> Stable],
     [version |-> <<"m", "a", "s", "t", "e", "r">>, reference |-> Latest],
     [version |-> <<"d", "e", "v">>, reference |-> Latest]}

FallbackVersions == {e.version : e \in VERSION_FALLBACK_MAP}

FallbackOf(version) == (CHOOSE e \in VERSION_FALLBACK_MAP : e.version = version).reference

\* str.split('.'): the pieces between the dots
RECURSIVE SplitOnDot(_)
SplitOnDot(s) ==
    LET d == IndexFrom(s, ".", 1)
    IN IF d = 0 THEN <<s>>
       ELSE <<SubSeq(s, 1, d - 1)>> \o SplitOnDot(SubSeq(s, d + 1, Len(s)))

\* int(s) for a string of digits
RECURSIVE ToInt(_)
ToInt(s) ==
    IF s = <<>> THEN 0
    ELSE 10 * ToInt(SubSeq(s, 1, Len(s) - 1))
         + (CHOOSE k \in 0..9 : DigitChars[k + 1] = s[Len(s)])

IsDigits(s) == s # <<>> /\ Range(s) \subseteq Range(DigitChars)

\* version.strip() and the removal of a leading "v"
NormalizeVersion(version) ==
    IF StartsWith(Strip(version), <<"v">>) THEN Tail(Strip(version)) ELSE Strip(version)

\* The warnings added for a mapped version after the fallback reason, or the
\* exception that the elif chain raises: version.split('.')[1] where the
\* version holds no dot, int() of a second part that is no number.
VersionWarnings(version) ==
    IF StartsWith(version, <<"0", ".", "1", "2">>) \/ StartsWith(version, <<"0", ".", "1", "1">>)
    THEN [raised |-> "", warnings |-> <<"for_loop_syntax_differs">>]
    ELSE IF StartsWith(version, <<"0", ".", "1", "0">>) \/ StartsWith(version, <<"0", ".", "9">>)
    THEN [raised |-> "", warnings |-> <<"major_differences", "recommend_upgrading">>]
    ELSE IF StartsWith(version, <<"0", ".", "8">>)
    THEN [raised |-> "", warnings |-> <<"very_old_version", "highly_recommend_upgrading">>]
    ELSE IF Len(SplitOnDot(version)) < 2
    THEN [raised |-> "IndexError", warnings |-> <<>>]
    ELSE IF ~IsDigits(SplitOnDot(version)[2])
    THEN [raised |-> "ValueError", warnings |-> <<>>]
    ELSE IF ToInt(SplitOnDot(version)[2]) < 9
    THEN [raised |-> "", warnings |-> <<"very_old_version", "highly_recommend_upgrading">>]
    ELSE [raised |-> "", warnings |-> <<>>]

ReferencesDir == <<"r", "e", "f", "e", "r", "e", "n", "c", "e", "s", "/">>

\* rel_path
RelPath(reference_version) ==
    IF reference_version = Latest THEN ReferencesDir \o Latest
    ELSE ReferencesDir \o <<"v">> \o reference_version

\* get_reference_path_for_version(version), in a skill directory where the
\* directories of dirs exist: the record returned, or the exception raised
GetReferencePathForVersion(version, dirs) ==
    LET v == NormalizeVersion(version)
        exact == v \in AVAILABLE_REFERENCE_VERSIONS
        mapped == v \in FallbackVersions
        reference_version == IF exact THEN v ELSE IF mapped THEN FallbackOf(v) ELSE Stable
        reason == IF exact THEN <<>>
                  ELSE IF mapped THEN <<[message |-> "no_references", version |-> v,
                                         using |-> reference_version]>>
                  ELSE <<[message |-> "unknown_version", version |-> v,
                          using |-> reference_version]>>
        more == IF exact THEN [raised |-> "", warnings |-> <<>>]
                ELSE IF mapped THEN VersionWarnings(v)
                ELSE [raised |-> "", warnings |-> <<"consider_upgrading">>]
        exists == RelPath(reference_version) \in dirs
    IN IF more.raised # ""
       THEN [raised |-> more.raised]
       ELSE [raised |-> "",
             version |-> v,
             reference_version |-> reference_version,
             path |-> RelPath(reference_version),
             exists |-> exists,
             fallback |-> ~exact,
             fallback_reason |-> reason,
             warnings |-> reason \o more.warnings
                          \o (IF exists THEN <<>>
                              ELSE <<"directory_does_not_exist", "run_consolidator">>)]

\* ------------------------------------------------------------------ SpecReferences:
\* one call of get_reference_path_for_version

\* the mapped versions, the version with references, and versions written
\* with a "v", with blanks, or unknown
RequestedVersions ==
    FallbackVersions
    \cup {Stable, <<"v">> \o Stable, <<" ", "m", "a", "s", "t", "e", "r">>,
          <<"1", ".", "0", ".", "0">>, <<"0", ".", "8", ".", "1">>}

InitReferences ==
    /\ NoConversion
    /\ call = "get_reference_path_for_version"
    /\ args \in [version : RequestedVersions,
                 dirs : SUBSET {RelPath(Stable), RelPath(Latest)}]
    /\ result = Pending

GetReferencePathCall ==
    /\ call = "get_reference_path_for_version"
    /\ ~result.returned
    /\ result' = Returned(GetReferencePathForVersion(args.version, args.dirs))
    /\ UNCHANGED <<tree, run, files, call, args>>

NextReferences == GetReferencePathCall

SpecReferences == InitReferences /\ [][NextReferences]_vars

\* ------------------------------------------------------------------ claims on SpecReferences

\* C21: for every version of VERSION_FALLBACK_MAP a record is returned: for
\* master and dev it names the reference version latest and the path
\* references/latest, for every other one the path references/v0.15.2, and
\* fallback is true
C21_MappedVersionsResolve ==
    (/\ call = "get_reference_path_for_version"
     /\ result.returned
     /\ args.version \in FallbackVersions) =>
        /\ result.value.raised = ""
        /\ result.value.fallback
        /\ IF args.version \in {<<"m", "a", "s", "t", "e", "r">>, <<"d", "e", "v">>}
           THEN /\ result.value.reference_version = <<"l", "a", "t", "e", "s", "t">>
                /\ result.value.path = ReferencesDir \o <<"l", "a", "t", "e", "s", "t">>
           ELSE result.value.path = ReferencesDir \o <<"v", "0", ".", "1", "5", ".", "2">>

\* ------------------------------------------------------------------ SpecMain:
\* main() of the converter working through versions_to_process

\* number of versions of AVAILABLE_VERSIONS
NumVersions == 3

\* What fetch_html and convert_html_to_markdown do for a version: both
\* return; fetch_html logs and calls sys.exit(1) (timeout, HTTP error,
\* connection failure); convert_html_to_markdown calls sys.exit(1) (the HTML
\* is not parsed, the table of contents is empty, the output directory is not
\* made); generate_readme raises IOError; the user interrupts.
FetchExits == {"timeout", "http_error", "connection_failure"}

ConvertExits == {"parse_failed", "empty_toc", "mkdir_failed"}

ConvertRaises == {"readme_failed"}

VersionOutcomes == {"ok", "interrupt"} \cup FetchExits \cup ConvertExits \cup ConvertRaises

\* versions_to_process: all versions with --all, one version otherwise
VersionsToProcess(all) == IF all THEN NumVersions ELSE 1

InitMain ==
    /\ NoConversion
    /\ call = "main"
    /\ \E all \in BOOLEAN :
        args \in [all : {all}, outcomes : [1..VersionsToProcess(all) -> VersionOutcomes]]
    /\ result = Pending

\* the version the loop is at: the one after those in result.value
MainAt(outcomes) ==
    /\ call = "main"
    /\ ~result.returned
    /\ Len(result.value) < Len(args.outcomes)
    /\ args.outcomes[Len(result.value) + 1] \in outcomes

Processed(how) == Append(result.value, [outcome |-> args.outcomes[Len(result.value) + 1], how |-> how])

\* fetch and conversion return: the next version
VersionConverted ==
    /\ MainAt({"ok"})
    /\ result' = [returned |-> FALSE, value |-> Processed("converted")]
    /\ UNCHANGED <<tree, run, files, call, args>>

\* sys.exit(1) inside fetch_html or convert_html_to_markdown: SystemExit is
\* no Exception, the handler of line 808 does not catch it, main ends
VersionExits ==
    /\ MainAt(FetchExits \cup ConvertExits)
    /\ result' = Returned([exit_code |-> 1, processed |-> Processed("exited")])
    /\ UNCHANGED <<tree, run, files, call, args>>

\* an Exception out of the conversion: logged; with --all the loop goes on,
\* without it sys.exit(1)
VersionRaises ==
    /\ MainAt(ConvertRaises)
    /\ result' = IF args.all
                 THEN [returned |-> FALSE, value |-> Processed("logged")]
                 ELSE Returned([exit_code |-> 1, processed |-> Processed("exited")])
    /\ UNCHANGED <<tree, run, files, call, args>>

\* KeyboardInterrupt: sys.exit(130)
VersionInterrupted ==
    /\ MainAt({"interrupt"})
    /\ result' = Returned([exit_code |-> 130, processed |-> Processed("exited")])
    /\ UNCHANGED <<tree, run, files, call, args>>

\* the loop is through: main returns
MainReturns ==
    /\ call = "main"
    /\ ~result.returned
    /\ Len(result.value) = Len(args.outcomes)
    /\ result' = Returned([exit_code |-> 0, processed |-> result.value])
    /\ UNCHANGED <<tree, run, files, call, args>>

NextMain ==
    \/ VersionConverted
    \/ VersionExits
    \/ VersionRaises
    \/ VersionInterrupted
    \/ MainReturns

SpecMain == InitMain /\ [][NextMain]_vars

\* ------------------------------------------------------------------ claims on SpecMain

\* the errors the claim names: fetch timeout, HTTP error, connection failure, empty TOC
NamedErrors == {"timeout", "http_error", "connection_failure", "empty_toc"}

\* C22: with --all an error of one version (fetch timeout, HTTP error,
\* connection failure, empty TOC) does not end the run, every version is
\* still processed; without --all it exits with code 1
C22_AllKeepsGoing ==
    (/\ call = "main"
     /\ result.returned
     /\ \A k \in DOMAIN args.outcomes : args.outcomes[k] \in NamedErrors \cup {"ok"}) =>
        IF args.all
        THEN Len(result.value.processed) = Len(args.outcomes)
        ELSE (args.outcomes[1] \in NamedErrors => result.value.exit_code = 1)

\* ------------------------------------------------------------------ more claims on SpecExtract

\* the headings in the tree before the last call that match its anchor id at
\* a priority: 1 an h2 with the id, 2 an h2 with "toc-" and the id, 3 an h1
\* with the id, 4 an h1 with "toc-" and the id, 5 an h1 holding a link to
\* "#" and the id or to "#toc-" and the id
MatchesAt(priority) ==
    {n \in 1..Len(doc) :
        /\ InSoup(doc, last.before, n)
        /\ \/ priority = 1 /\ doc[n].tag = "h2" /\ doc[n].id = last.sid
           \/ priority = 2 /\ doc[n].tag = "h2" /\ doc[n].id = TocPrefix \o last.sid
           \/ priority = 3 /\ doc[n].tag = "h1" /\ doc[n].id = last.sid
           \/ priority = 4 /\ doc[n].tag = "h1" /\ doc[n].id = TocPrefix \o last.sid
           \/ priority = 5 /\ doc[n].tag = "h1"
                /\ doc[n].href \in {Hash \o last.sid, Hash \o TocPrefix \o last.sid}}

\* C23: the heading found is the first one in document order of the highest
\* priority at which any heading of the document matches; a match of a lower
\* priority is taken only when none of a higher priority exists anywhere.
C23_HeadingByFixedPriority ==
    last.found =>
        \E p \in 1..5 :
            /\ MatchesAt(p) # {}
            /\ \A q \in 1..(p - 1) : MatchesAt(q) = {}
            /\ last.header = SetMin(MatchesAt(p))

\* an h1 with the id stands before an h2 with the prefixed id, and the h2 is found
C23_Witness ==
    /\ last.found
    /\ MatchesAt(2) # {}
    /\ MatchesAt(3) # {}
    /\ SetMin(MatchesAt(3)) < SetMin(MatchesAt(2))
    /\ last.header = SetMin(MatchesAt(2))

\* ------------------------------------------------------------------ more claims on Spec

\* the entry of the table of contents the most recent extraction was made for
LastEntry == IF pc \in {"render", "clean", "links", "write"} THEN idx ELSE Len(status)

\* the entries before the last one that have the same anchor id and were found
EarlierSameId ==
    {j \in 1..(LastEntry - 1) : toc[j].id = last.sid /\ status[j].nodes # <<>>}

\* a heading still in the document matches the id of the last call
HeadingRemains == \E p \in 1..5 : MatchesAt(p) # {}

\* C26: once an extraction has succeeded for an anchor id, its heading and
\* nodes are out of the document, and a later entry repeating the id never
\* gets that heading or any of those nodes: it gets a section only when a
\* different heading still in the document matches the id, otherwise nothing,
\* and then the entry is skipped: recorded without content and never written.
C26_RepeatedIdGetsNoEarlierNode ==
    (last.called /\ EarlierSameId # {}) =>
        /\ \A j \in EarlierSameId :
            /\ Range(status[j].nodes) \subseteq last.before
            /\ Range(status[j].nodes) \cap ({last.header} \cup Range(last.nodes)) = {}
        /\ last.found <=> HeadingRemains
        /\ last.found => InSoup(doc, last.before, last.header)
        /\ ~last.found =>
            /\ status[LastEntry] = [result |-> "no_content", nodes |-> <<>>]
            /\ \A w \in 1..Len(writes) : writes[w].entry # LastEntry

\* a finished run whose last entry repeated the id of a written section and
\* was skipped
C26_Witness ==
    /\ pc = "done"
    /\ last.called /\ ~last.found
    /\ \E j \in EarlierSameId : status[j].result = "written"
    /\ status[LastEntry].result = "no_content"

\* the section files written during the run
WrittenFiles == {writes[w].filename : w \in 1..Len(writes)}

\* the files that fix_internal_links names in the cross-file links of a
\* written section file, for links to the anchors of the table of contents
CrossFileTargets(w) ==
    {LookupTarget(section_map, toc[k].id) : k \in 1..Len(toc)} \ {<<>>, writes[w].filename}

\* C28: after a finished run, every file named by a cross-file link in a
\* written section file and every file name listed in README.md is a section
\* file written during the run, also when entries were skipped or two
\* entries have the same anchor id.
C28_LinksAndIndexNameWrittenFiles ==
    pc = "done" =>
        /\ \A k \in 1..Len(readme[1]) : readme[1][k].filename \in WrittenFiles
        /\ \A w \in 1..Len(writes) : CrossFileTargets(w) \subseteq WrittenFiles

\* ------------------------------------------------------------------ version_updater.py

\* the characters of a version string in the order of their code points
OrderedChars == <<".">> \o DigitChars \o LowerCase

CharRank(c) == CHOOSE k \in 1..Len(OrderedChars) : OrderedChars[k] = c

\* a < b for two strings, as list.sort() compares them
RECURSIVE StrLess(_, _)
StrLess(a, b) ==
    IF b = <<>> THEN FALSE
    ELSE IF a = <<>> THEN TRUE
    ELSE IF Head(a) = Head(b) THEN StrLess(Tail(a), Tail(b))
    ELSE CharRank(Head(a)) < CharRank(Head(b))

\* x put into the sorted list s, after the elements equal to it
RECURSIVE InsertSorted(_, _)
InsertSorted(s, x) ==
    IF s = <<>> THEN <<x>>
    ELSE IF StrLess(x, Head(s)) THEN <<x>> \o s
    ELSE <<Head(s)>> \o InsertSorted(Tail(s), x)

\* versions.sort()
RECURSIVE SortVersions(_)
SortVersions(s) ==
    IF s = <<>> THEN <<>> ELSE InsertSorted(SortVersions(SubSeq(s, 1, Len(s) - 1)), s[Len(s)])

\* versions.json holding the list
FileWith(versions) == [exists |-> TRUE, versions |-> versions]

\* the file is written whether or not the version is new
WriteVersionsAlways(file, version) == FileWith(SortVersions(Append(file.versions, version)))

\* update_skill_metadata, its part on versions.json: the file afterwards
WriteVersions(file, version) ==
    LET versions == IF file.exists THEN file.versions ELSE <<>>
    IN IF version \notin Range(versions)
       THEN FileWith(SortVersions(Append(versions, version)))
       ELSE file

\* check_new_version(version)
CheckNewVersion(file, version) ==
    IF file.exists THEN version \notin Range(file.versions) ELSE TRUE

\* ------------------------------------------------------------------ SpecUpdater:
\* calls of update_skill_metadata and check_new_version on one skill directory

\* number of calls made on the updater
MaxCalls == 4

\* the versions the calls are made with
UpdaterVersions ==
    {<<"0", ".", "9", ".", "1">>, <<"0", ".", "1", "0", ".", "1">>,
     <<"m", "a", "s", "t", "e", "r">>}

\* args holds the calls made so far, result what each of them returned
InitUpdater ==
    /\ NoConversion
    /\ call = "VersionUpdater"
    /\ args = <<>>
    /\ result = <<>>

Called(method, version) == [method |-> method, version |-> version]

\* update_skill_metadata(version) runs to its end
UpdateSkillMetadata ==
    /\ call = "VersionUpdater"
    /\ Len(args) < MaxCalls
    /\ \E v \in UpdaterVersions :
        /\ args' = Append(args, Called("update_skill_metadata", v))
        /\ versions_file' = WriteVersions(versions_file, v)
        /\ result' = Append(result, "None")
    /\ UNCHANGED <<tree, run, call>>

\* update_skill_metadata(version) when SKILL.md cannot be read: read_text
\* raises before versions.json is looked at
UpdateSkillMetadataRaises ==
    /\ call = "VersionUpdater"
    /\ Len(args) < MaxCalls
    /\ \E v \in UpdaterVersions :
        /\ args' = Append(args, Called("update_skill_metadata", v))
        /\ result' = Append(result, "raised")
    /\ UNCHANGED <<tree, run, files, call>>

\* check_new_version(version)
CheckNewVersionCall ==
    /\ call = "VersionUpdater"
    /\ Len(args) < MaxCalls
    /\ \E v \in UpdaterVersions :
        /\ args' = Append(args, Called("check_new_version", v))
        /\ result' = Append(result, IF CheckNewVersion(versions_file, v) THEN "True" ELSE "False")
    /\ UNCHANGED <<tree, run, files, call>>

NextUpdater == UpdateSkillMetadata \/ UpdateSkillMetadataRaises \/ CheckNewVersionCall

SpecUpdater == InitUpdater /\ [][NextUpdater]_vars

\* ------------------------------------------------------------------ claims on SpecUpdater

\* the versions of the update_skill_metadata calls that ran to their end
UpdatedVersions ==
    {args[k].version : k \in {j \in 1..Len(args) :
        args[j].method = "update_skill_metadata" /\ result[j] = "None"}}

\* the calls after the last update_skill_metadata call that ran to its end
SinceLastUpdate(k) ==
    \A j \in (k + 1)..Len(args) :
        ~(args[j].method = "update_skill_metadata" /\ result[j] = "None")

\* C30: after any sequence of update_skill_metadata calls versions.json holds
\* every updated version exactly once and nothing else; once
\* update_skill_metadata(v) has run to its end, check_new_version(v) returns
\* False; check_new_version(v) returns True only when versions.json is absent
\* or does not list v.
C30_VersionsListedOnce ==
    call = "VersionUpdater" =>
        /\ \A v \in UpdatedVersions : Occurrences(versions_file.versions, <<v>>) = 1
        /\ Range(versions_file.versions) = UpdatedVersions
        /\ versions_file.exists <=> UpdatedVersions # {}
        /\ \A v \in UpdatedVersions : ~CheckNewVersion(versions_file, v)
        /\ \A k \in 1..Len(args) :
            args[k].method = "check_new_version" =>
                /\ (\E j \in 1..(k - 1) :
                        /\ args[j] = Called("update_skill_metadata", args[k].version)
                        /\ result[j] = "None") => result[k] = "False"
                /\ (result[k] = "True" /\ SinceLastUpdate(k)) =>
                        \/ ~versions_file.exists
                        \/ args[k].version \notin Range(versions_file.versions)

\* a version updated twice and another one once, then a check of the first
\* returning False and a check of a version never updated returning True
C30_Witness ==
    /\ call = "VersionUpdater"
    /\ \E v, u \in UpdaterVersions :
        /\ v # u
        /\ args = <<Called("update_skill_metadata", v), Called("update_skill_metadata", v),
                    Called("check_new_version", v), Called("check_new_version", u)>>
        /\ result = <<"None", "None", "False", "True">>
        /\ versions_file = FileWith(<<v>>)

====
